---- MODULE Spec2Model ----
(***************************************************************************)
(* A model of the iter package of go-extra-lib: the pull-based Iterator    *)
(* protocol (Next / Get / Err), the source generators, the combinatorial   *)
(* generators and the element-wise combinators, driven by a consumer that  *)
(* runs the documented loop                                                *)
(*     for i.Next() { elem := i.Get() } ; err := i.Err()                   *)
(* An iterator is a record; Next and Get are operators that return the     *)
(* iterator's new state together with the call's result.  Go slices are    *)
(* sequences read through At/Put with the 0-based indices of the code.     *)
(***************************************************************************)
EXTENDS Integers, Sequences, FiniteSets

\* ------------------------------------------------------------------ bounds

\* Most items handed to Combinations / Permutations / PowerSet / ...
MaxItems == 4
\* Largest r handed to the r-length generators (exceeds MaxItems: r > n).
MaxR == 5
\* The same two for a generator that is handed on to Limit / Skip / Slice.
MaxWrappedItems == 3
MaxWrappedR == 4
\* Most inner lists of a cartesian product, and their greatest length.
MaxLists == 3
MaxInner == 2
\* Longest slice / reader input, and the greatest element value in them
\* (the least is -1).
MaxLen == 3
MaxVal == 2
\* Greatest count handed to Limit / Skip / Slice.
MaxCount == 3
\* Most elements the consumer takes from Repeat, which never ends.
MaxRepeat == 4
\* Most elements the consumer takes from a range that counts upwards.
MaxRange == 4
\* Longest slice handed to Batches, its greatest element (the least is 1)
\* and the greatest batch size.
MaxBatchLen == 4
MaxBatchVal == 2
MaxBatchSize == 3
\* The clock of a resource run starts at FirstNow and is read up to LastNow
\* (the zero time.Time is 0, long before either); MinimalTimeBetween is at
\* most MaxBetween (and at least -1), and R is called at most MaxCalls times.
FirstNow == 4
LastNow == 8
MaxBetween == 2
MaxCalls == 3
\* Most Next() calls the consumer makes after Next() has returned false.
MaxLate == 2

\* ------------------------------------------------------------------ helpers

At(s, i) == s[i + 1]
Put(s, i, v) == [s EXCEPT ![i + 1] = v]

\* make([]int, n): n zero values
MakeInts(n) == [k \in 1..n |-> 0]

\* The error values of the model; Nil is Go's nil error.
Nil == "nil"
EOF == "io.EOF"
ErrWrappedEOF == "parse: io.EOF"
ErrRead == "read failed"
ErrFunc == "f failed"

\* panic(msg): the call does not return
Panic(msg) == [type |-> "panic", msg |-> msg]

\* panic(msg) in a call that was handed the iterator i, which the panic
\* leaves in the state the call had brought it to
PanicOn(msg, i) == [type |-> "panic", msg |-> msg, i |-> i]

\* The variadic items of the generators: n distinct values.
ItemsOf(n) == [k \in 1..n |-> 100 + k]

\* ------------------------------------------------------------------ sources

\* sliceIterator (OverSlice / Over)
Over(s) == [type |-> "slice", s |-> s, i |-> -1]

SliceNext(it) ==
    IF it.i >= Len(it.s)
    THEN [it |-> it, ok |-> FALSE]
    ELSE [it |-> [it EXCEPT !.i = @ + 1], ok |-> it.i + 1 < Len(it.s)]

SliceGet(it) == [it |-> it, v |-> At(it.s, it.i)]

\* emptyIterator
Empty == [type |-> "empty"]

EmptyNext(it) == [it |-> it, ok |-> FALSE]

\* errorIterator
Error(e) == [type |-> "error", err |-> e]

ErrorNext(it) == [it |-> it, ok |-> FALSE]

\* An IOReader: the records it returns one per Read(), then the error `fail`
\* (io.EOF or a real failure) on every later Read(); reads counts the calls.
Reader(recs, fail) == [recs |-> recs, pos |-> 0, fail |-> fail, reads |-> 0]

ReaderRead(r) ==
    IF r.pos < Len(r.recs)
    THEN [r |-> [r EXCEPT !.pos = @ + 1, !.reads = @ + 1],
          v |-> At(r.recs, r.pos), err |-> Nil]
    ELSE [r |-> [r EXCEPT !.reads = @ + 1], v |-> 0, err |-> r.fail]

\* errors.Is(err, io.EOF): err is io.EOF or wraps it
ErrorsIsEOF(err) == err \in {EOF, ErrWrappedEOF}

\* ioIterator (OverIOReader)
OverIOReader(r) == [type |-> "io", r |-> r, v |-> 0, err |-> Nil]

IONext_KeepEOF(it) ==
    LET rd == ReaderRead(it.r) IN
    [it |-> [it EXCEPT !.r = rd.r, !.v = rd.v, !.err = rd.err], ok |-> rd.err = Nil]
IONext(it) ==
    LET rd == ReaderRead(it.r) IN
    IF ErrorsIsEOF(rd.err)
    THEN [it |-> [it EXCEPT !.r = rd.r, !.v = rd.v, !.err = Nil], ok |-> FALSE]
    ELSE IF rd.err # Nil
    THEN [it |-> [it EXCEPT !.r = rd.r, !.v = rd.v, !.err = rd.err], ok |-> FALSE]
    ELSE [it |-> [it EXCEPT !.r = rd.r, !.v = rd.v, !.err = rd.err], ok |-> TRUE]

IOGet(it) == [it |-> it, v |-> it.v]

\* int8 arithmetic of a Range[int8]: addition wraps around.
MaxInt8 == 127

Int8(x) == ((x + 128) % 256) - 128

\* rangeIterator (Range / RangeFrom / RangeWithStep)
RangeWithStep(start, stop, delta) ==
    [type |-> "range", current |-> start, stop |-> stop, delta |-> delta,
     started |-> FALSE]

RangeNext_Through(it) ==
    LET nx == IF ~it.started
              THEN [it EXCEPT !.started = TRUE]
              ELSE [it EXCEPT !.current = Int8(@ + it.delta)]
    IN [it |-> nx, ok |-> nx.current <= nx.stop]
RangeNext(it) ==
    LET nx == IF ~it.started
              THEN [it EXCEPT !.started = TRUE]
              ELSE [it EXCEPT !.current = Int8(@ + it.delta)]
    IN [it |-> nx, ok |-> nx.current < nx.stop]

RangeGet(it) == [it |-> it, v |-> it.current]

\* cycleIterator (Cycle)
Cycle(n, items) ==
    IF n < 0 THEN Panic("can't cycle (negative) times")
    ELSE IF Len(items) = 0 \/ n = 0
    THEN Empty
    ELSE [type |-> "cycle", items |-> items, i |-> -1, loop |-> 0, loops |-> n]

CycleNext(it) ==
    LET a == [it EXCEPT !.i = @ + 1]
        b == IF a.i = Len(a.items) THEN [a EXCEPT !.loop = @ + 1, !.i = 0] ELSE a
    IN [it |-> b, ok |-> b.loop < b.loops]

CycleGet(it) == [it |-> it, v |-> At(it.items, it.i)]

\* repeatIterator (Repeat)
Repeat(items) ==
    IF Len(items) = 0 THEN Panic("can't repeat zero elements")
    ELSE [type |-> "repeat", items |-> items, i |-> -1]

RepeatNext(it) == [it |-> [it EXCEPT !.i = (@ + 1) % Len(it.items)], ok |-> TRUE]

RepeatGet(it) == [it |-> it, v |-> At(it.items, it.i)]

\* utf8.DecodeRuneInString on a string given as its bytes, restricted to
\* one- and two-byte encodings: an ASCII byte is its own rune; a lead byte
\* 0xC2..0xDF followed by a continuation byte 0x80..0xBF is a two-byte rune;
\* anything else is the replacement character U+FFFD of width 1.
DecodeRune(bytes) ==
    LET b0 == bytes[1] IN
    IF b0 < 128 THEN [c |-> b0, size |-> 1]
    ELSE IF b0 >= 194 /\ b0 <= 223 /\ Len(bytes) >= 2
            /\ bytes[2] >= 128 /\ bytes[2] <= 191
    THEN [c |-> (b0 - 192) * 64 + (bytes[2] - 128), size |-> 2]
    ELSE [c |-> 65533, size |-> 1]

\* stringIterator (OverString)
OverString(s) == [type |-> "string", rest |-> s, c |-> 0]

StringNext(it) ==
    IF Len(it.rest) = 0
    THEN [it |-> it, ok |-> FALSE]
    ELSE LET d == DecodeRune(it.rest) IN
         [it |-> [it EXCEPT !.c = d.c,
                            !.rest = SubSeq(it.rest, d.size + 1, Len(it.rest))],
          ok |-> TRUE]

StringGet(it) == [it |-> it, v |-> it.c]

\* ------------------------------------------------------------ combinatorics

\* cartesianProductIterator.Next: the odometer loop  for n := len-1; n >= 0; n--
RECURSIVE CartesianAdvance(_, _, _)
CartesianAdvance_CarryAlways(indices, items, n) ==
    IF n < 0 THEN indices
    ELSE LET inc == Put(indices, n, At(indices, n) + 1) IN
         IF n > 0 /\ At(inc, n) >= Len(At(items, n))
         THEN CartesianAdvance(Put(inc, n, 0), items, n - 1)
         ELSE IF n > 0 THEN CartesianAdvance(inc, items, n - 1) ELSE inc
CartesianAdvance(indices, items, n) ==
    IF n < 0 THEN indices
    ELSE LET inc == Put(indices, n, At(indices, n) + 1) IN
         IF n > 0 /\ At(inc, n) >= Len(At(items, n))
         THEN CartesianAdvance(Put(inc, n, 0), items, n - 1)
         ELSE inc

CartesianNext(it) ==
    IF ~it.started
    THEN [it |-> [it EXCEPT !.started = TRUE], ok |-> TRUE]
    ELSE LET ind == CartesianAdvance(it.indices, it.items, Len(it.items) - 1) IN
         [it |-> [it EXCEPT !.indices = ind],
          ok |-> At(ind, 0) < Len(At(it.items, 0))]

CartesianGet(it) ==
    LET d == [n \in 1..Len(it.items) |-> At(it.items[n], it.indices[n])] IN
    [it |-> [it EXCEPT !.dest = d], v |-> d]

CartesianProduct(outer) ==
    IF Len(outer) = 0 THEN Empty
    ELSE IF \E n \in 1..Len(outer) : Len(outer[n]) = 0 THEN Empty
    ELSE [type |-> "cartesian", items |-> outer, indices |-> MakeInts(Len(outer)),
          dest |-> MakeInts(Len(outer)), started |-> FALSE]

\* combinationsIterator.Next: the greatest value position i may hold
CombinationsLast(i, n, r) == i + n - r

\* the first indices  for i := range it.indices { it.indices[i] = i }
CombinationsFirst_Zero(r) == MakeInts(r)
CombinationsFirst(r) == [k \in 1..r |-> k - 1]

\* the scan  for ; i >= 0; i-- { if indices[i] != i+n-r { break } }
RECURSIVE CombinationsScan(_, _, _, _)
CombinationsScan(indices, i, n, r) ==
    IF i < 0 THEN i
    ELSE IF At(indices, i) # CombinationsLast(i, n, r) THEN i
    ELSE CombinationsScan(indices, i - 1, n, r)

\* the refill  for j := i+1; j < r; j++ { indices[j] = indices[j-1] + 1 }
RECURSIVE CombinationsFill(_, _, _)
CombinationsFill(indices, j, r) ==
    IF j >= r THEN indices
    ELSE CombinationsFill(Put(indices, j, At(indices, j - 1) + 1), j + 1, r)

CombinationsNext(it) ==
    IF ~it.started
    THEN [it |-> [it EXCEPT !.n = Len(it.items),
                            !.indices = CombinationsFirst(it.r),
                            !.started = TRUE],
          ok |-> TRUE]
    ELSE LET i == CombinationsScan(it.indices, it.r - 1, it.n, it.r) IN
         IF i < 0 THEN [it |-> it, ok |-> FALSE]
         ELSE [it |-> [it EXCEPT !.indices =
                          CombinationsFill(Put(it.indices, i, At(it.indices, i) + 1),
                                           i + 1, it.r)],
               ok |-> TRUE]

\* Get of the combinations, combinations-with-replacement generators
IndexedGet(it) ==
    LET d == [n \in 1..Len(it.indices) |-> At(it.items, it.indices[n])] IN
    [it |-> [it EXCEPT !.dest = d], v |-> d]

Combinations(r, items) ==
    IF r < 0 THEN Panic("r can't be negative")
    ELSE IF r > Len(items) THEN Empty
    ELSE IF r = 0 THEN Over(<< <<>> >>)
    ELSE [type |-> "combinations", items |-> items, dest |-> MakeInts(r),
          indices |-> <<>>, n |-> 0, r |-> r, started |-> FALSE]

\* combinationsWithReplacementIterator.Next: the scan
\*   for ; i >= 0; i-- { if indices[i] != n-1 { break } }
RECURSIVE CwrScan(_, _, _)
CwrScan(indices, i, n) ==
    IF i < 0 THEN i
    ELSE IF At(indices, i) # n - 1 THEN i
    ELSE CwrScan(indices, i - 1, n)

\* the refill  for j := i; j < r; j++ { indices[j] = newIndex }
CwrFill_OnlyFirst(indices, i, r, newIndex) == Put(indices, i, newIndex)
CwrFill(indices, i, r, newIndex) ==
    [k \in 1..Len(indices) |->
        IF k - 1 >= i /\ k - 1 < r THEN newIndex ELSE indices[k]]

CombinationsWithReplacementNext(it) ==
    IF ~it.started
    THEN [it |-> [it EXCEPT !.n = Len(it.items), !.indices = MakeInts(it.r),
                            !.started = TRUE],
          ok |-> TRUE]
    ELSE LET i == CwrScan(it.indices, it.r - 1, it.n) IN
         IF i < 0 THEN [it |-> it, ok |-> FALSE]
         ELSE [it |-> [it EXCEPT !.indices =
                          CwrFill(it.indices, i, it.r, At(it.indices, i) + 1)],
               ok |-> TRUE]

CombinationsWithReplacement_Doc(r, items) ==
    IF r = 0 THEN Over(<< <<>> >>)
    ELSE IF r > Len(items) THEN Empty
    ELSE [type |-> "cwr", items |-> items, dest |-> MakeInts(r),
          indices |-> <<>>, n |-> 0, r |-> r, started |-> FALSE]
CombinationsWithReplacement(r, items) ==
    IF r < 0 THEN Panic("r can't be negative")
    ELSE IF r = 0 THEN Over(<< <<>> >>)
    ELSE IF Len(items) = 0 THEN Empty
    ELSE [type |-> "cwr", items |-> items, dest |-> MakeInts(r),
          indices |-> <<>>, n |-> 0, r |-> r, started |-> FALSE]

\* permutationsIterator.Next: copy(indices[i:], indices[i+1:]) and then
\* indices[n-1] = indexAtI
PermutationsRotate(indices, i, n) ==
    [k \in 1..Len(indices) |->
        IF k - 1 < i THEN indices[k]
        ELSE IF k - 1 < n - 1 THEN indices[k + 1]
        ELSE At(indices, i)]

\* the position indices[i] is swapped with:  j := n - cycles[i]
PermutationsPartner_Fixed(n, c) == n - 1
PermutationsPartner(n, c) == n - c

\* the loop  for i := r-1; i >= 0; i--
RECURSIVE PermutationsLoop(_, _)
PermutationsLoop(it, i) ==
    IF i < 0 THEN [it |-> it, ok |-> FALSE]
    ELSE LET c == At(it.cycles, i) - 1 IN
         IF c = 0
         THEN PermutationsLoop(
                  [it EXCEPT !.indices = PermutationsRotate(it.indices, i, it.n),
                             !.cycles = Put(it.cycles, i, it.n - i)],
                  i - 1)
         ELSE LET j == PermutationsPartner(it.n, c) IN
              [it |-> [it EXCEPT !.cycles = Put(it.cycles, i, c),
                                 !.indices = Put(Put(it.indices, i, At(it.indices, j)),
                                                 j, At(it.indices, i))],
               ok |-> TRUE]

PermutationsNext(it) ==
    IF ~it.started
    THEN [it |-> [it EXCEPT !.n = Len(it.items),
                            !.indices = [k \in 1..Len(it.items) |-> k - 1],
                            !.cycles = [k \in 1..it.r |-> Len(it.items) - (k - 1)],
                            !.started = TRUE],
          ok |-> TRUE]
    ELSE PermutationsLoop(it, it.r - 1)

PermutationsGet(it) ==
    LET d == [n \in 1..it.r |-> At(it.items, it.indices[n])] IN
    [it |-> [it EXCEPT !.dest = d], v |-> d]

Permutations(r, items) ==
    IF r < 0 THEN Panic("r can't be negative")
    ELSE IF r > Len(items) THEN Empty
    ELSE IF r = 0 THEN Over(<< <<>> >>)
    ELSE [type |-> "permutations", items |-> items, dest |-> MakeInts(r),
          indices |-> <<>>, cycles |-> <<>>, n |-> 0, r |-> r, started |-> FALSE]

\* i.current>>uint64(srcIdx)&1
BitAt_Shifted(current, srcIdx) == (current \div (2 ^ (srcIdx + 1))) % 2
BitAt(current, srcIdx) == (current \div (2 ^ srcIdx)) % 2

\* bits.OnesCount64
RECURSIVE OnesCount(_)
OnesCount(x) == IF x = 0 THEN 0 ELSE (x % 2) + OnesCount(x \div 2)

\* powerSetIterator; current and end are uint64 and end = 1 << len(items) with
\* len(items) <= 63, so neither wraps.
PowerSetNext(it) ==
    LET nx == IF it.started
              THEN [it EXCEPT !.current = @ + 1]
              ELSE [it EXCEPT !.started = TRUE]
    IN [it |-> nx, ok |-> nx.current < nx.end]

\* the loop of Get: dest[destIdx] = elem for every set bit, in input order
RECURSIVE PowerSetFill(_, _, _, _, _)
PowerSetFill(dest, items, current, srcIdx, destIdx) ==
    IF srcIdx >= Len(items) THEN dest
    ELSE IF BitAt(current, srcIdx) # 0
    THEN PowerSetFill(Put(dest, destIdx, At(items, srcIdx)), items, current,
                      srcIdx + 1, destIdx + 1)
    ELSE PowerSetFill(dest, items, current, srcIdx + 1, destIdx)

PowerSetGet(it) ==
    LET n == OnesCount(it.current) IN
    IF n = 0 THEN [it |-> it, v |-> <<>>]
    ELSE LET d == PowerSetFill(it.dest, it.items, it.current, 0, 0) IN
         [it |-> [it EXCEPT !.dest = d], v |-> SubSeq(d, 1, n)]

PowerSetLimit == 63

PowerSet(items) ==
    IF Len(items) > PowerSetLimit
    THEN Panic("PowerSet only supports up to 63 elements")
    ELSE IF Len(items) = 0 THEN Over(<< <<>> >>)
    ELSE [type |-> "powerset", items |-> items, dest |-> MakeInts(Len(items)),
          current |-> 0, end |-> 2 ^ Len(items), started |-> FALSE]

\* -------------------------------------------------- element-wise combinators

\* Go's x % 2: the remainder has the sign of x
GoRem2(x) == IF x >= 0 THEN x % 2 ELSE 0 - ((0 - x) % 2)

\* The predicates a caller hands to the combinators, by name:
\* x => x < 2  and  isOdd; "id" is the element itself, a bool
PredHolds(p, x) ==
    CASE p = "lt2" -> x < 2
      [] p = "odd" -> GoRem2(x) = 1
      [] p = "id" -> x

\* the mapping function  x => x + 5
MapFunc(x) == x + 5

\* the fallible mapping function: fails on a negative x, else x + 5
MapFuncWithError(x) ==
    IF x < 0 THEN [v |-> 0, err |-> ErrFunc] ELSE [v |-> x + 5, err |-> Nil]

\* i.(VolatileIterator[T]): the iterator has a GetCopy method
IsVolatile(i) ==
    \/ i.type \in {"cartesian", "combinations", "cwr", "permutations", "powerset"}
    \/ i.type = "probe" /\ i.volatile

\* An Iterator of the caller's own: it forwards to the iterator it holds and
\* counts the calls it receives (Next, Get, Next after Next returned false);
\* oks is the number of Next calls that returned true, got the number of
\* Get / GetCopy calls since the last Next, twice tells whether some Next was
\* followed by more than one, errs is the number of Err calls and early tells
\* whether Err was called before Next had returned false.
\* It is a VolatileIterator when the iterator it holds is one.
Probe(i) == [type |-> "probe", i |-> i, nexts |-> 0, gets |-> 0,
             ended |-> FALSE, late |-> 0, volatile |-> IsVolatile(i),
             oks |-> 0, got |-> 0, twice |-> FALSE, errs |-> 0, early |-> FALSE]

\* A VolatileIterator of the caller's own over an iterator that is not one:
\* Get returns the element in a buffer the caller's iterator reuses, GetCopy
\* a copy of it.
VolatileProbe(i) == [Probe(i) EXCEPT !.volatile = TRUE]

\* v := e, a local variable: F is the code that follows the assignment
Bind(v, F(_)) == F(v)

RECURSIVE IterNext(_)
RECURSIVE IterGet(_)
RECURSIVE IterErr(_)
RECURSIVE IterErrCalled(_)
RECURSIVE IterGetCopy(_)

ProbeNext(it) ==
    LET r == IterNext(it.i) IN
    [it |-> [it EXCEPT !.i = r.it, !.nexts = @ + 1,
                       !.late = IF it.ended THEN @ + 1 ELSE @,
                       !.ended = it.ended \/ ~r.ok,
                       !.oks = IF r.ok THEN @ + 1 ELSE @,
                       !.got = 0],
     ok |-> r.ok]

ProbeGet(it) ==
    LET g == IterGet(it.i) IN
    [it |-> [it EXCEPT !.i = g.it, !.gets = @ + 1, !.got = @ + 1,
                       !.twice = @ \/ it.got >= 1],
     v |-> g.v]

\* the caller's iterator once its Err() has been called
ProbeErrCalled(it) == [it EXCEPT !.errs = @ + 1, !.early = @ \/ ~it.ended]

\* GetCopy of the caller's VolatileIterator
ProbeGetCopy(it) ==
    LET g == IF IsVolatile(it.i) THEN IterGetCopy(it.i) ELSE IterGet(it.i) IN
    [it |-> [it EXCEPT !.i = g.it, !.gets = @ + 1, !.got = @ + 1,
                       !.twice = @ \/ it.got >= 1],
     v |-> g.v]

\* nonVolatileIterator: Next forwards, Get calls GetCopy, Err returns nil
NonVolatileNext(it) ==
    LET r == IterNext(it.i) IN [it |-> [it EXCEPT !.i = r.it], ok |-> r.ok]

NonVolatileGet(it) ==
    LET g == IterGetCopy(it.i) IN [it |-> [it EXCEPT !.i = g.it], v |-> g.v]

NonVolatileErr(it) == Nil

ToNonVolatile(i) ==
    IF IsVolatile(i) THEN [type |-> "nonVolatile", i |-> i] ELSE i

\* The binary functions a caller hands to Accumulate and Reduce, by name:
\* add, and a subtraction, which is neither commutative nor associative
BinFunc(f, accumulator, element) ==
    CASE f = "add" -> accumulator + element
      [] f = "sub" -> accumulator - element

\* accumulateIterator
AccumulateNext_Swapped(it) ==
    CASE it.state = "Base" ->
            LET r == IterNext(it.i) IN
            IF r.ok
            THEN LET g == IterGet(r.it) IN
                 [it |-> [it EXCEPT !.i = g.it, !.acc = BinFunc(it.f, g.v, it.acc)],
                  ok |-> TRUE]
            ELSE [it |-> [it EXCEPT !.i = r.it, !.state = "Finished"], ok |-> FALSE]
      [] it.state = "Initial" -> [it |-> [it EXCEPT !.state = "Base"], ok |-> TRUE]
      [] it.state = "Finished" -> [it |-> it, ok |-> FALSE]
AccumulateNext(it) ==
    CASE it.state = "Base" ->
            LET r == IterNext(it.i) IN
            IF r.ok
            THEN LET g == IterGet(r.it) IN
                 [it |-> [it EXCEPT !.i = g.it, !.acc = BinFunc(it.f, it.acc, g.v)],
                  ok |-> TRUE]
            ELSE [it |-> [it EXCEPT !.i = r.it, !.state = "Finished"], ok |-> FALSE]
      [] it.state = "Initial" -> [it |-> [it EXCEPT !.state = "Base"], ok |-> TRUE]
      [] it.state = "Finished" -> [it |-> it, ok |-> FALSE]

AccumulateGet(it) == [it |-> it, v |-> it.acc]

AccumulateWithInitial(i, f, initial) ==
    [type |-> "accumulate", i |-> i, f |-> f, state |-> "Initial", acc |-> initial]

Accumulate(i, f) ==
    LET r == IterNext(i) IN
    IF ~r.ok THEN Empty
    ELSE LET g == IterGet(r.it) IN
         [type |-> "accumulate", i |-> g.it, f |-> f, state |-> "Initial",
          acc |-> g.v]

\* Reduce: the loop  for i.Next() { if ok { r = f(r, i.Get()) } else { ... } }
RECURSIVE ReduceLoop(_, _, _, _)
ReduceLoop(i, f, r, ok) ==
    Bind(IterNext(i), LAMBDA n :
        IF ~n.ok THEN [it |-> n.it, r |-> r, ok |-> ok]
        ELSE Bind(IterGet(n.it), LAMBDA g :
                 IF ok THEN ReduceLoop(g.it, f, BinFunc(f, r, g.v), ok)
                 ELSE ReduceLoop(g.it, f, g.v, TRUE)))

Reduce(i, f) == ReduceLoop(i, f, 0, FALSE)

\* ReduceWithInitial: the loop  for i.Next() { r = f(r, i.Get()) }
RECURSIVE ReduceWithInitialLoop(_, _, _)
ReduceWithInitialLoop(i, f, r) ==
    Bind(IterNext(i), LAMBDA n :
        IF ~n.ok THEN [it |-> n.it, r |-> r]
        ELSE Bind(IterGet(n.it), LAMBDA g :
                 ReduceWithInitialLoop(g.it, f, BinFunc(f, r, g.v))))

ReduceWithInitial(i, f, initial) == ReduceWithInitialLoop(i, f, initial)

\* The loop of the boolean scans
\*   for i.Next() { if f(i.Get()) == want { return found } }
\*   return !found
RECURSIVE ScanLoop(_, _, _, _)
ScanLoop(i, f, want, found) ==
    Bind(IterNext(i), LAMBDA n :
        IF ~n.ok THEN [it |-> n.it, r |-> ~found]
        ELSE Bind(IterGet(n.it), LAMBDA g :
                 IF PredHolds(f, g.v) = want THEN [it |-> g.it, r |-> found]
                 ELSE ScanLoop(g.it, f, want, found)))

AnyFunc(i, f) == ScanLoop(i, f, TRUE, TRUE)

Any(i) == ScanLoop(i, "id", TRUE, TRUE)

AllFunc(i, f) == ScanLoop(i, f, FALSE, FALSE)

All(i) == ScanLoop(i, "id", FALSE, FALSE)

NoneFunc_StopOnFalse(i, f) == ScanLoop(i, f, FALSE, FALSE)
NoneFunc(i, f) == ScanLoop(i, f, TRUE, FALSE)

None(i) == ScanLoop(i, "id", TRUE, FALSE)

\* dropWhileIterator
DropWhile(i, pred) ==
    [type |-> "dropWhile", i |-> i, pred |-> pred, e |-> 0, skipped |-> FALSE]

RECURSIVE DropWhileNext(_)
DropWhileNext(it) ==
    LET r == IterNext(it.i) IN
    IF ~r.ok THEN [it |-> [it EXCEPT !.i = r.it], ok |-> FALSE]
    ELSE LET g == IterGet(r.it)
             a == [it EXCEPT !.i = g.it, !.e = g.v]
         IN IF a.skipped THEN [it |-> a, ok |-> TRUE]
            ELSE IF ~PredHolds(a.pred, a.e)
            THEN [it |-> [a EXCEPT !.skipped = TRUE], ok |-> TRUE]
            ELSE DropWhileNext(a)

StoredGet(it) == [it |-> it, v |-> it.e]

\* enumerateIterator
Enumerate(i, start) == [type |-> "enumerate", i |-> i, n |-> start - 1]

EnumerateNext(it) ==
    LET r == IterNext(it.i) IN
    [it |-> [it EXCEPT !.i = r.it, !.n = IF r.ok THEN @ + 1 ELSE @], ok |-> r.ok]

EnumerateGet(it) ==
    LET g == IterGet(it.i) IN
    [it |-> [it EXCEPT !.i = g.it], v |-> <<it.n, g.v>>]

\* filterIterator
Filter(i, keep) == [type |-> "filter", i |-> i, pred |-> keep, e |-> 0]

RECURSIVE FilterNext(_)
FilterNext(it) ==
    LET r == IterNext(it.i) IN
    IF ~r.ok THEN [it |-> [it EXCEPT !.i = r.it], ok |-> FALSE]
    ELSE LET g == IterGet(r.it)
             a == [it EXCEPT !.i = g.it, !.e = g.v]
         IN IF PredHolds(a.pred, a.e) THEN [it |-> a, ok |-> TRUE]
            ELSE FilterNext(a)

\* limitIterator:  if i.i.Next() && i.left > 0 { i.left--; return true }
Limit(i, n) ==
    IF n < 0 THEN PanicOn("Limit count can't be negative", i)
    ELSE [type |-> "limit", i |-> i, left |-> n]

LimitNext_LeftFirst(it) ==
    IF it.left <= 0 THEN [it |-> it, ok |-> FALSE]
    ELSE LET r == IterNext(it.i) IN
         IF r.ok
         THEN [it |-> [it EXCEPT !.i = r.it, !.left = @ - 1], ok |-> TRUE]
         ELSE [it |-> [it EXCEPT !.i = r.it], ok |-> FALSE]
LimitNext_OffByOne(it) ==
    LET r == IterNext(it.i) IN
    IF r.ok /\ it.left >= 0
    THEN [it |-> [it EXCEPT !.i = r.it, !.left = @ - 1], ok |-> TRUE]
    ELSE [it |-> [it EXCEPT !.i = r.it], ok |-> FALSE]
LimitNext(it) ==
    LET r == IterNext(it.i) IN
    IF r.ok /\ it.left > 0
    THEN [it |-> [it EXCEPT !.i = r.it, !.left = @ - 1], ok |-> TRUE]
    ELSE [it |-> [it EXCEPT !.i = r.it], ok |-> FALSE]

ForwardGet(it) ==
    LET g == IterGet(it.i) IN [it |-> [it EXCEPT !.i = g.it], v |-> g.v]

\* functionMapIterator; calls is the number of times the caller's f has been
\* invoked (f counts them itself)
Map(i) == [type |-> "map", i |-> i, calls |-> 0]

MapNext(it) ==
    LET r == IterNext(it.i) IN [it |-> [it EXCEPT !.i = r.it], ok |-> r.ok]

MapGet_Twice(it) ==
    LET g == IterGet(IterGet(it.i).it) IN
    [it |-> [it EXCEPT !.i = g.it, !.calls = @ + 1], v |-> MapFunc(g.v)]
MapGet(it) ==
    LET g == IterGet(it.i) IN
    [it |-> [it EXCEPT !.i = g.it, !.calls = @ + 1], v |-> MapFunc(g.v)]

\* functionMapWithErrorIterator; calls is the number of times the caller's f
\* has been invoked (f counts them itself)
MapWithError(i) ==
    [type |-> "mapWithError", i |-> i, e |-> 0, err |-> Nil, calls |-> 0]

MapWithErrorNext_NoLatch(it) ==
    LET r == IterNext(it.i) IN
    IF r.ok
    THEN LET g == IterGet(r.it)
             f == MapFuncWithError(g.v)
         IN [it |-> [it EXCEPT !.i = g.it, !.e = f.v, !.err = f.err,
                               !.calls = @ + 1],
             ok |-> f.err = Nil]
    ELSE [it |-> [it EXCEPT !.i = IterErrCalled(r.it), !.err = IterErr(r.it)],
          ok |-> FALSE]
MapWithErrorNext(it) ==
    IF it.err # Nil THEN [it |-> it, ok |-> FALSE]
    ELSE LET r == IterNext(it.i) IN
         IF r.ok
         THEN LET g == IterGet(r.it)
                  f == MapFuncWithError(g.v)
              IN [it |-> [it EXCEPT !.i = g.it, !.e = f.v, !.err = f.err,
                                    !.calls = @ + 1],
                  ok |-> f.err = Nil]
         ELSE [it |-> [it EXCEPT !.i = IterErrCalled(r.it), !.err = IterErr(r.it)],
               ok |-> FALSE]

\* takeWhileIterator; calls is the number of times the caller's pred has
\* been evaluated (pred counts them itself)
TakeWhile(i, pred) ==
    [type |-> "takeWhile", i |-> i, pred |-> pred, e |-> 0, done |-> FALSE,
     calls |-> 0]

TakeWhileNext_NoLatch(it) ==
    LET r == IterNext(it.i) IN
    IF ~r.ok THEN [it |-> [it EXCEPT !.i = r.it], ok |-> FALSE]
    ELSE LET g == IterGet(r.it)
             a == [it EXCEPT !.i = g.it, !.e = g.v, !.calls = @ + 1]
         IN [it |-> a, ok |-> PredHolds(a.pred, a.e)]
TakeWhileNext(it) ==
    IF it.done THEN [it |-> it, ok |-> FALSE]
    ELSE LET r == IterNext(it.i) IN
         IF ~r.ok THEN [it |-> [it EXCEPT !.i = r.it], ok |-> FALSE]
         ELSE LET g == IterGet(r.it)
                  a == [it EXCEPT !.i = g.it, !.e = g.v, !.calls = @ + 1]
              IN IF PredHolds(a.pred, a.e) THEN [it |-> a, ok |-> TRUE]
                 ELSE [it |-> [a EXCEPT !.done = TRUE], ok |-> FALSE]

\* Skip: the loop  for a := 0; a < n; a++ { if !i.Next() { break } }; return i
RECURSIVE SkipLoop(_, _, _)
SkipLoop(i, a, n) ==
    IF a >= n THEN i
    ELSE LET r == IterNext(i) IN
         IF ~r.ok THEN r.it ELSE SkipLoop(r.it, a + 1, n)

Skip_OneMore(i, n) == SkipLoop(i, 0, n + 1)
Skip(i, n) ==
    IF n < 0 THEN PanicOn("Skip count can't be negative", i)
    ELSE SkipLoop(i, 0, n)

\* Slice:  if start > 0 { Skip(i, start) }; return Limit(i, stop-start)
Slice_NoOrderCheck(i, start, stop) ==
    IF start < 0 \/ stop < 0 THEN PanicOn("invalid slice", i)
    ELSE Limit(IF start > 0 THEN Skip(i, start) ELSE i, stop - start)
Slice(i, start, stop) ==
    IF start < 0 \/ stop < 0 \/ start > stop THEN PanicOn("invalid slice", i)
    ELSE Limit(IF start > 0 THEN Skip(i, start) ELSE i, stop - start)

\* ------------------------------------------------ the Iterator interface

IterNext(it) ==
    CASE it.type = "slice" -> SliceNext(it)
      [] it.type = "empty" -> EmptyNext(it)
      [] it.type = "error" -> ErrorNext(it)
      [] it.type = "io" -> IONext(it)
      [] it.type = "range" -> RangeNext(it)
      [] it.type = "cycle" -> CycleNext(it)
      [] it.type = "repeat" -> RepeatNext(it)
      [] it.type = "string" -> StringNext(it)
      [] it.type = "cartesian" -> CartesianNext(it)
      [] it.type = "combinations" -> CombinationsNext(it)
      [] it.type = "cwr" -> CombinationsWithReplacementNext(it)
      [] it.type = "permutations" -> PermutationsNext(it)
      [] it.type = "powerset" -> PowerSetNext(it)
      [] it.type = "probe" -> ProbeNext(it)
      [] it.type = "dropWhile" -> DropWhileNext(it)
      [] it.type = "enumerate" -> EnumerateNext(it)
      [] it.type = "filter" -> FilterNext(it)
      [] it.type = "limit" -> LimitNext(it)
      [] it.type = "map" -> MapNext(it)
      [] it.type = "mapWithError" -> MapWithErrorNext(it)
      [] it.type = "takeWhile" -> TakeWhileNext(it)
      [] it.type = "nonVolatile" -> NonVolatileNext(it)
      [] it.type = "accumulate" -> AccumulateNext(it)

IterGet(it) ==
    CASE it.type = "slice" -> SliceGet(it)
      [] it.type = "io" -> IOGet(it)
      [] it.type = "range" -> RangeGet(it)
      [] it.type = "cycle" -> CycleGet(it)
      [] it.type = "repeat" -> RepeatGet(it)
      [] it.type = "string" -> StringGet(it)
      [] it.type = "cartesian" -> CartesianGet(it)
      [] it.type = "combinations" -> IndexedGet(it)
      [] it.type = "cwr" -> IndexedGet(it)
      [] it.type = "permutations" -> PermutationsGet(it)
      [] it.type = "powerset" -> PowerSetGet(it)
      [] it.type = "probe" -> ProbeGet(it)
      [] it.type = "dropWhile" -> StoredGet(it)
      [] it.type = "enumerate" -> EnumerateGet(it)
      [] it.type = "filter" -> StoredGet(it)
      [] it.type = "limit" -> ForwardGet(it)
      [] it.type = "map" -> MapGet(it)
      [] it.type = "mapWithError" -> StoredGet(it)
      [] it.type = "takeWhile" -> StoredGet(it)
      [] it.type = "nonVolatile" -> NonVolatileGet(it)
      [] it.type = "accumulate" -> AccumulateGet(it)

\* GetCopy of the VolatileIterators; the generators' is slices.Clone(i.Get())
IterGetCopy(it) ==
    CASE it.type = "probe" -> ProbeGetCopy(it)
      [] OTHER -> IterGet(it)

\* Err() of the wrappers that hold one source:  return i.i.Err()
ForwardErr_Nil(it) == Nil
ForwardErr(it) == IterErr(it.i)

IterErr(it) ==
    CASE it.type \in {"slice", "empty", "range", "cycle", "repeat", "string",
                      "cartesian",
                      "combinations", "cwr", "permutations", "powerset"} -> Nil
      [] it.type \in {"error", "io", "mapWithError"} -> it.err
      [] it.type \in {"probe", "dropWhile", "enumerate", "filter", "limit", "map",
                      "takeWhile", "accumulate"} -> ForwardErr(it)
      [] it.type = "nonVolatile" -> NonVolatileErr(it)

\* the iterator after a call of its Err(): the wrappers whose Err() is
\* return i.i.Err()  pass the call on, the others answer from their own fields
ForwardErrCalled(it) == [it EXCEPT !.i = IterErrCalled(@)]

IterErrCalled(it) ==
    CASE it.type = "probe" -> ProbeErrCalled(it)
      [] it.type \in {"dropWhile", "enumerate", "filter", "limit", "map",
                      "takeWhile", "accumulate"} -> ForwardErrCalled(it)
      [] OTHER -> it

\* ------------------------------------------------------------- storage
\* A []T element is a reference to storage.  Get() of a generator returns its
\* dest buffer ("dest"), or nil for the empty subset; slices.Clone of a
\* non-empty slice returns an allocation of its own ("own"), which no other
\* reference shares; every other element is held by value ("value").

\* slices.Clone(s): the storage of the result, from that of s
CloneRef_Alias(at) == at
CloneRef(at) == IF at = "dest" THEN "own" ELSE at

RECURSIVE IterRef(_)
RECURSIVE IterCopyRef(_)

\* the storage of the element Get() has just returned
IterRef(it) ==
    CASE it.type \in {"cartesian", "combinations", "cwr", "permutations"} -> "dest"
      [] it.type = "powerset" ->
            IF OnesCount(it.current) = 0 THEN "nil" ELSE "dest"
      [] it.type \in {"probe", "limit"} -> IterRef(it.i)
      [] it.type = "nonVolatile" -> IterCopyRef(it.i)
      [] OTHER -> "value"

\* the storage of the element GetCopy() has just returned
IterCopyRef(it) ==
    CASE it.type = "probe" ->
            IF IsVolatile(it.i) THEN IterCopyRef(it.i) ELSE IterRef(it.i)
      [] OTHER -> CloneRef(IterRef(it))

\* the dest buffer of the generator at the bottom of the iterator
RECURSIVE Buffer(_)
Buffer(i) == IF "dest" \in DOMAIN i THEN i.dest ELSE Buffer(i.i)

\* dest[0] = x, written through a reference to the buffer
RECURSIVE WriteBuffer(_, _)
WriteBuffer(i, x) ==
    IF "dest" \in DOMAIN i THEN [i EXCEPT !.dest = Put(@, 0, x)]
    ELSE [i EXCEPT !.i = WriteBuffer(@, x)]

\* what the reference e = [v, at] read when it was returned holds now that
\* the iterator is in state i
Deref(i, e) ==
    IF e.at = "dest" THEN SubSeq(Buffer(i), 1, Len(e.v)) ELSE e.v

\* --------------------------------------------------------------- collectors

\* IntoSlice: the loop  for it.Next() { s = append(s, it.Get()) }
RECURSIVE IntoSliceLoop(_, _)
IntoSliceLoop(i, s) ==
    Bind(IterNext(i), LAMBDA r :
        IF ~r.ok THEN [it |-> r.it, s |-> s]
        ELSE Bind(IterGet(r.it), LAMBDA g :
                 IntoSliceLoop(g.it,
                               Append(s, [v |-> g.v, at |-> IterRef(g.it)]))))

IntoSlice(i) ==
    Bind(IntoSliceLoop(ToNonVolatile(i), <<>>), LAMBDA c :
        [it |-> c.it, s |-> [k \in 1..Len(c.s) |-> Deref(c.it, c.s[k])]])

\* ------------------------------------------------------------ state machine

VARIABLES
    cfg,    \* the arguments of the run: the source built and the combinator asked for
    it,     \* the iterator the consumer holds
    out,    \* the elements the consumer has received from Get(), in order
    pc,     \* "new": combinator not yet constructed; "iter": in the for loop;
            \* "done": Next() returned false; "closed": Err() has been read;
            \* "late": Next() has been called again after that
    errv,   \* the value Err() returned
    late,   \* what the Next() calls made after Next() returned false returned
    res,    \* what the reducer or collector of the run returned
    ch,     \* the channel of IntoChannel / SendOver
    gpc,    \* where the goroutines at the two ends of the channel are
    batchRun,       \* a call of slices2.Batches: its arguments and locals
    resourceRun,    \* a resource.TimeLimited around a resource.HTTP, the
                    \* clock and the server they run against
    bitsetRun       \* a bitset.BitSet and an iterator made from it

iterVars == <<cfg, it, out, pc, errv, late, res, ch, gpc>>

vars == <<iterVars, batchRun, resourceRun, bitsetRun>>

\* what a run of one package leaves alone: the variables of the others
besidesIter == <<batchRun, resourceRun, bitsetRun>>
besidesBatches == <<iterVars, resourceRun, bitsetRun>>
besidesResource == <<iterVars, batchRun, bitsetRun>>
besidesBitSet == <<iterVars, batchRun, resourceRun>>

\* the value of a package's variable in a run that does not use the package
Idle == [pc |-> "idle"]

IterOnly == batchRun = Idle /\ resourceRun = Idle /\ bitsetRun = Idle

\* no channel has been made, no goroutine started
NoChan == [made |-> FALSE, closed |-> FALSE, closes |-> 0]
NoGoroutines == [sender |-> "none", sending |-> <<>>, receiver |-> "none"]

IntSeqs == UNION {[1..n -> (-1)..MaxVal] : n \in 0..MaxLen}

BoolSeqs == UNION {[1..n -> BOOLEAN] : n \in 0..MaxLen}

\* the bytes of the model's strings: 'A', and the two bytes of U+00E9
ByteSeqs == UNION {[1..n -> {65, 195, 169}] : n \in 0..MaxLen}

\* inner lists of the given lengths, with distinct elements
InnerLists(lens) == [k \in 1..Len(lens) |-> [j \in 1..lens[k] |-> 10 * k + j]]

\* the combinators a run may ask for: none (the source is iterated as it is),
\* the ones that take a count, and the ones that take a predicate or a function
\* over integers
Op(o, c, a, b, p) == [op |-> o, count |-> c, start |-> a, stop |-> b, pred |-> p]

NoOps == {Op("Iterate", 0, 0, 0, "lt2")}

CountOps ==
    {Op(o, c, 0, 0, "lt2") : o \in {"Limit", "Skip"}, c \in 0..MaxCount}
    \cup {Op("Slice", 0, ab[1], ab[2], "lt2") :
             ab \in {x \in (0..MaxCount) \X (0..MaxCount) : x[1] <= x[2]}}

IntOps ==
    {Op(o, 0, 0, 0, p) : o \in {"Filter", "DropWhile", "TakeWhile"},
                         p \in {"lt2", "odd"}}
    \cup {Op("Enumerate", 0, a, 0, "lt2") : a \in {0, 5}}
    \cup {Op(o, 0, 0, 0, "lt2") : o \in {"Map", "MapWithError"}}

\* the folds, with the function in pred and the initial value in start
FoldOps ==
    {Op(o, 0, 0, 0, f) : o \in {"Reduce", "Accumulate"}, f \in {"add", "sub"}}
    \cup {Op(o, 0, a, 0, f) : o \in {"ReduceWithInitial", "AccumulateWithInitial"},
                             a \in {0, 5}, f \in {"add", "sub"}}

\* the boolean scans, over any elements and over bools
ScanOps ==
    {Op(o, 0, 0, 0, p) : o \in {"AnyFunc", "AllFunc", "NoneFunc"},
                         p \in {"lt2", "odd"}}

BoolScanOps == {Op(o, 0, 0, 0, "id") : o \in {"Any", "All", "None"}}

\* calls with the arguments the constructors reject
UsageErrorOps ==
    {Op(o, -1, 0, 0, "lt2") : o \in {"Limit", "Skip"}}
    \cup {Op("Slice", 0, ab[1], ab[2], "lt2") :
             ab \in {<<-1, 1>>, <<0, -1>>, <<-1, -1>>, <<2, 1>>}}

\* the volatile-to-owned adapter and the collector that uses it
AdapterOps == {Op(o, 0, 0, 0, "lt2") : o \in {"ToNonVolatile", "IntoSlice"}}

\* a caller that asks a VolatileIterator for two copies of every element
CopyOps == {Op("CopyTwice", 0, 0, 0, "lt2")}

StartWith(gen, r, n, lens, src, probe, ops) ==
    /\ it = probe
    /\ out = <<>>
    /\ errv = "unset"
    /\ late = <<>>
    /\ res = IF src.type = "panic" THEN <<src.msg>> ELSE <<>>
    /\ ch = NoChan
    /\ gpc = NoGoroutines
    /\ IterOnly
    /\ \E o \in ops :
          /\ cfg = [gen |-> gen, r |-> r, n |-> n, lens |-> lens, src |-> src,
                    op |-> o.op, count |-> o.count, start |-> o.start,
                    stop |-> o.stop, pred |-> o.pred]
          /\ pc = CASE src.type = "panic" -> "panicked"
                    [] o.op = "Iterate" -> "iter"
                    [] o.op = "CopyTwice" -> "copy"
                    [] OTHER -> "new"

Start(gen, r, n, lens, src, ops) ==
    StartWith(gen, r, n, lens, src,
              IF src.type = "panic" THEN src ELSE Probe(src), ops)

\* the r-length generators and the power set over n items
StartGenerators(r, n, ops) ==
    \/ Start("Permutations", r, n, <<>>, Permutations(r, ItemsOf(n)), ops)
    \/ Start("Combinations", r, n, <<>>, Combinations(r, ItemsOf(n)), ops)
    \/ Start("CombinationsWithReplacement", r, n, <<>>,
             CombinationsWithReplacement(r, ItemsOf(n)), ops)
    \/ r = 0 /\ Start("PowerSet", 0, n, <<>>, PowerSet(ItemsOf(n)), ops)

Init ==
    \/ \E r \in (-1)..MaxR, n \in 0..MaxItems : StartGenerators(r, n, NoOps)
    \/ Start("PowerSet", 0, PowerSetLimit + 1, <<>>,
             PowerSet(ItemsOf(PowerSetLimit + 1)), NoOps)
    \/ \E r \in 0..MaxWrappedR, n \in 0..MaxWrappedItems :
          StartGenerators(r, n, CountOps \cup AdapterOps \cup CopyOps)
    \/ \E m \in 0..MaxLists : \E lens \in [1..m -> 0..MaxInner] :
          Start("CartesianProduct", 0, m, lens, CartesianProduct(InnerLists(lens)),
                NoOps \cup CountOps \cup AdapterOps \cup CopyOps)
    \/ \E s \in IntSeqs :
          Start("Over", 0, Len(s), <<>>, Over(s),
                NoOps \cup CountOps \cup IntOps \cup AdapterOps \cup FoldOps
                \cup ScanOps \cup UsageErrorOps)
    \/ \E s \in IntSeqs, f \in {EOF, ErrWrappedEOF, ErrRead} :
          \/ Start("OverIOReader", 0, Len(s), <<>>, OverIOReader(Reader(s, f)),
                   NoOps \cup CountOps \cup IntOps \cup AdapterOps \cup FoldOps
                \cup ScanOps)
          \/ StartWith("VolatileOverIOReader", 0, Len(s), <<>>,
                       OverIOReader(Reader(s, f)),
                       VolatileProbe(OverIOReader(Reader(s, f))),
                       NoOps \cup AdapterOps)
    \/ Start("Error", 0, 0, <<>>, Error(ErrRead),
             NoOps \cup CountOps \cup IntOps \cup AdapterOps)
    \/ \E a \in 0..2, b \in 0..(MaxVal + 1), d \in {1, 2, -2} :
          Start("RangeWithStep", 0, 0, <<a, b, d>>, RangeWithStep(a, b, d),
                NoOps \cup CountOps \cup IntOps)
    \/ \E a \in (MaxInt8 - 3)..(MaxInt8 - 1), b \in (MaxInt8 - 2)..MaxInt8,
          d \in {1, 2, 4} :
          Start("RangeWithStep", 0, 0, <<a, b, d>>, RangeWithStep(a, b, d), NoOps)
    \/ \E s \in {q \in IntSeqs : Len(q) <= 2} :
          Start("Repeat", 0, Len(s), <<>>, Repeat(s), NoOps)
    \/ \E c \in (-1)..2, s \in {q \in IntSeqs : Len(q) <= 2} :
          Start("Cycle", c, Len(s), <<>>, Cycle(c, s),
                NoOps \cup CountOps \cup IntOps \cup FoldOps \cup ScanOps)
    \/ \E s \in BoolSeqs :
          Start("OverBools", 0, Len(s), <<>>, Over(s), BoolScanOps)
    \/ \E s \in ByteSeqs :
          Start("OverString", 0, Len(s), <<>>, OverString(s), NoOps \cup CountOps)

\* The call that constructs the combinator of the run around the source.
\* When the constructor panics no iterator is returned: the caller is left
\* with the source, in the state the constructor had brought it to.
Construct(op, built) ==
    /\ pc = "new"
    /\ cfg.op = op
    /\ IF built.type = "panic"
       THEN /\ it' = built.i
            /\ res' = <<built.msg>>
            /\ pc' = "panicked"
       ELSE /\ it' = built
            /\ res' = res
            /\ pc' = "iter"
    /\ UNCHANGED <<cfg, out, errv, late, ch, gpc, besidesIter>>

MapNew == Construct("Map", Map(it))
MapWithErrorNew == Construct("MapWithError", MapWithError(it))
FilterNew == Construct("Filter", Filter(it, cfg.pred))
DropWhileNew == Construct("DropWhile", DropWhile(it, cfg.pred))
TakeWhileNew == Construct("TakeWhile", TakeWhile(it, cfg.pred))
EnumerateNew == Construct("Enumerate", Enumerate(it, cfg.start))
LimitNew == Construct("Limit", Limit(it, cfg.count))
SkipNew == Construct("Skip", Skip(it, cfg.count))
SliceNew == Construct("Slice", Slice(it, cfg.start, cfg.stop))
ToNonVolatileNew == Construct("ToNonVolatile", ToNonVolatile(it))
AccumulateNew == Construct("Accumulate", Accumulate(it, cfg.pred))
AccumulateWithInitialNew ==
    Construct("AccumulateWithInitial",
              AccumulateWithInitial(it, cfg.pred, cfg.start))

\* One round of the consumer's loop  for i.Next() { elem := i.Get() }
ConsumerNext ==
    /\ pc = "iter"
    /\ cfg.gen = "Repeat" => Len(out) < MaxRepeat
    /\ (cfg.gen = "RangeWithStep" /\ cfg.lens[3] > 0) => Len(out) < MaxRange
    /\ \E r \in {IterNext(it)} :
          IF r.ok
          THEN \E g \in {IterGet(r.it)} :
                  /\ it' = g.it
                  /\ out' = Append(out, g.v)
                  /\ pc' = pc
          ELSE /\ it' = r.it
               /\ out' = out
               /\ pc' = "done"
    /\ UNCHANGED <<cfg, errv, late, res, ch, gpc, besidesIter>>

\* err := i.Err(), after the loop
ConsumerErr ==
    /\ pc = "done"
    /\ errv' = IterErr(it)
    /\ it' = IterErrCalled(it)
    /\ pc' = "closed"
    /\ UNCHANGED <<cfg, out, late, res, ch, gpc, besidesIter>>

\* A call of a reducer or collector: it returns `result` and leaves the
\* iterator it was handed in state `after`.
Called(op) == pc = "new" /\ cfg.op = op

Return(after, result) ==
    /\ it' = after
    /\ res' = result
    /\ pc' = "returned"
    /\ UNCHANGED <<cfg, out, errv, late, ch, gpc, besidesIter>>

IntoSliceCall ==
    /\ Called("IntoSlice")
    /\ \E c \in {IntoSlice(it)} : Return(c.it, <<c.s>>)

ReduceCall ==
    /\ Called("Reduce")
    /\ \E c \in {Reduce(it, cfg.pred)} : Return(c.it, <<c.r, c.ok>>)

ReduceWithInitialCall ==
    /\ Called("ReduceWithInitial")
    /\ \E c \in {ReduceWithInitial(it, cfg.pred, cfg.start)} :
          Return(c.it, <<c.r>>)

AnyCall ==
    /\ Called("Any")
    /\ \E c \in {Any(it)} : Return(c.it, <<c.r>>)

AnyFuncCall ==
    /\ Called("AnyFunc")
    /\ \E c \in {AnyFunc(it, cfg.pred)} : Return(c.it, <<c.r>>)

AllCall ==
    /\ Called("All")
    /\ \E c \in {All(it)} : Return(c.it, <<c.r>>)

AllFuncCall ==
    /\ Called("AllFunc")
    /\ \E c \in {AllFunc(it, cfg.pred)} : Return(c.it, <<c.r>>)

NoneCall ==
    /\ Called("None")
    /\ \E c \in {None(it)} : Return(c.it, <<c.r>>)

NoneFuncCall ==
    /\ Called("NoneFunc")
    /\ \E c \in {NoneFunc(it, cfg.pred)} : Return(c.it, <<c.r>>)

\* One round of a caller's loop over a VolatileIterator
\*   for i.Next() { a := i.GetCopy(); b := i.GetCopy(); a[0] = 0; c := i.Get() }
\* which records a as it was returned, b as it reads after the write to a,
\* and c.
ConsumerCopyTwice ==
    /\ pc = "copy"
    /\ \E r \in {IterNext(it)} :
          IF r.ok
          THEN \E ga \in {IterGetCopy(r.it)} :
               \E a \in {[v |-> ga.v, at |-> IterCopyRef(ga.it)]} :
               \E gb \in {IterGetCopy(ga.it)} :
               \E b \in {[v |-> gb.v, at |-> IterCopyRef(gb.it)]} :
               \E w \in {IF a.at = "dest" /\ Len(a.v) > 0
                          THEN WriteBuffer(gb.it, 0) ELSE gb.it} :
               \E gc \in {IterGet(w)} :
                  /\ it' = gc.it
                  /\ res' = Append(res, <<a.v, Deref(w, b)>>)
                  /\ out' = Append(out, gc.v)
                  /\ pc' = pc
          ELSE /\ it' = r.it
               /\ res' = res
               /\ out' = out
               /\ pc' = "done"
    /\ UNCHANGED <<cfg, errv, late, ch, gpc, besidesIter>>

\* A consumer that calls Next() again although it has returned false
ConsumerNextAgain ==
    /\ pc \in {"closed", "late"}
    /\ Len(late) < MaxLate
    /\ \E r \in {IterNext(it)} :
          /\ it' = r.it
          /\ late' = Append(late, r.ok)
    /\ pc' = "late"
    /\ UNCHANGED <<cfg, out, errv, res, ch, gpc, besidesIter>>

Next ==
    \/ MapNew
    \/ MapWithErrorNew
    \/ FilterNew
    \/ DropWhileNew
    \/ TakeWhileNew
    \/ EnumerateNew
    \/ LimitNew
    \/ SkipNew
    \/ SliceNew
    \/ ToNonVolatileNew
    \/ AccumulateNew
    \/ AccumulateWithInitialNew
    \/ ReduceCall
    \/ ReduceWithInitialCall
    \/ AnyCall
    \/ AnyFuncCall
    \/ AllCall
    \/ AllFuncCall
    \/ NoneCall
    \/ NoneFuncCall
    \/ ConsumerNext
    \/ ConsumerErr
    \/ ConsumerNextAgain
    \/ IntoSliceCall
    \/ ConsumerCopyTwice

Spec == Init /\ [][Next]_vars

\* ------------------------------------------------------------- channels
\* IntoChannel and SendOver: a sender goroutine runs the loop
\*   for it.Next() { ch <- it.Get() }
\* over an unbuffered channel, and a receiver goroutine iterates
\* OverChannel(ch), whose Next() is  i.e, ok = <-i.ch.

ChanOps == {Op(o, 0, 0, 0, "lt2") : o \in {"IntoChannel", "SendOver"}}

ChanInit ==
    \/ \E s \in IntSeqs :
          Start("Over", 0, Len(s), <<>>, Over(s), ChanOps)
    \/ \E s \in IntSeqs, f \in {EOF, ErrRead} :
          Start("OverIOReader", 0, Len(s), <<>>, OverIOReader(Reader(s, f)),
                ChanOps)
    \/ \E r \in 0..2, n \in 0..MaxWrappedItems :
          Start("Permutations", r, n, <<>>, Permutations(r, ItemsOf(n)), ChanOps)

\* it := ToNonVolatile(i); ch := make(chan T); go func() { ... }(); return ch
\* and the caller starts to receive
IntoChannelCall ==
    /\ pc = "new"
    /\ cfg.op = "IntoChannel"
    /\ it' = ToNonVolatile(it)
    /\ ch' = [NoChan EXCEPT !.made = TRUE]
    /\ gpc' = [sender |-> "next", sending |-> <<>>, receiver |-> "recv"]
    /\ pc' = "chan"
    /\ UNCHANGED <<cfg, out, errv, late, res, besidesIter>>

\* ch := make(chan T); go SendOver(i, ch), and the caller starts to receive
SendOverCall ==
    /\ pc = "new"
    /\ cfg.op = "SendOver"
    /\ it' = ToNonVolatile(it)
    /\ ch' = [NoChan EXCEPT !.made = TRUE]
    /\ gpc' = [sender |-> "next", sending |-> <<>>, receiver |-> "recv"]
    /\ pc' = "chan"
    /\ UNCHANGED <<cfg, out, errv, late, res, besidesIter>>

\* where the sender goes when its loop ends: IntoChannel runs the deferred
\* close(ch), SendOver returns
AfterLoop_NoClose(op) == "exit"
AfterLoop(op) == IF op = "IntoChannel" THEN "close" ELSE "exit"

\* the sender evaluates it.Next() and, if true, it.Get()
SenderNext ==
    /\ gpc.sender = "next"
    /\ LET r == IterNext(it) IN
       IF r.ok
       THEN LET g == IterGet(r.it) IN
            /\ it' = g.it
            /\ gpc' = [gpc EXCEPT !.sender = "send", !.sending = <<g.v>>]
       ELSE /\ it' = r.it
            /\ gpc' = [gpc EXCEPT !.sender = AfterLoop(cfg.op)]
    /\ UNCHANGED <<cfg, out, pc, errv, late, res, ch, besidesIter>>

\* ch <- v meets <-ch: the unbuffered channel hands the element over, and the
\* receiver's loop body keeps it
Rendezvous_Buffered ==
    /\ gpc.sender = "send"
    /\ ~ch.closed
    /\ out' = IF gpc.receiver = "recv" THEN Append(out, gpc.sending[1]) ELSE out
    /\ gpc' = [gpc EXCEPT !.sender = "next", !.sending = <<>>]
    /\ UNCHANGED <<cfg, it, pc, errv, late, res, ch, besidesIter>>
Rendezvous ==
    /\ gpc.sender = "send"
    /\ gpc.receiver = "recv"
    /\ ~ch.closed
    /\ out' = Append(out, gpc.sending[1])
    /\ gpc' = [gpc EXCEPT !.sender = "next", !.sending = <<>>]
    /\ UNCHANGED <<cfg, it, pc, errv, late, res, ch, besidesIter>>

\* defer close(ch)
DeferredClose ==
    /\ gpc.sender = "close"
    /\ ch' = [ch EXCEPT !.closed = TRUE, !.closes = @ + 1]
    /\ gpc' = [gpc EXCEPT !.sender = "exit"]
    /\ UNCHANGED <<cfg, it, out, pc, errv, late, res, besidesIter>>

\* <-ch on the closed channel: channelIterator.Next returns false
ReceiveClosed ==
    /\ gpc.receiver = "recv"
    /\ ch.closed
    /\ gpc' = [gpc EXCEPT !.receiver = "done"]
    /\ UNCHANGED <<cfg, it, out, pc, errv, late, res, ch, besidesIter>>

\* a receiver that stops receiving before the channel is closed
ReceiverStops ==
    /\ gpc.receiver = "recv"
    /\ ~ch.closed
    /\ gpc' = [gpc EXCEPT !.receiver = "stopped"]
    /\ UNCHANGED <<cfg, it, out, pc, errv, late, res, ch, besidesIter>>

ChanNext ==
    \/ IntoChannelCall
    \/ SendOverCall
    \/ SenderNext
    \/ Rendezvous
    \/ DeferredClose
    \/ ReceiveClosed
    \/ ReceiverStops

\* Go runs every goroutine that can run: each step of the sender, the
\* hand-over when both ends are ready and the receive on a closed channel
\* happen if they stay possible.  Nothing makes a receiver stop.
ChanFairness ==
    /\ WF_vars(IntoChannelCall)
    /\ WF_vars(SendOverCall)
    /\ WF_vars(SenderNext)
    /\ WF_vars(Rendezvous)
    /\ WF_vars(DeferredClose)
    /\ WF_vars(ReceiveClosed)

SpecChan == ChanInit /\ [][ChanNext]_vars /\ ChanFairness

\* ------------------------------------------------------- slices2.Batches
\* batchRun holds the arguments s and batchSize, the local batches, and input,
\* the slice the caller passed.

\* no run of the iter package
IterIdle ==
    /\ cfg = Idle /\ it = Idle /\ out = Idle /\ pc = "idle" /\ errv = Idle
    /\ late = Idle /\ res = Idle /\ ch = Idle /\ gpc = Idle

BatchSeqs == UNION {[1..n -> 1..MaxBatchVal] : n \in 0..MaxBatchLen}

BatchesInit ==
    /\ IterIdle
    /\ resourceRun = Idle
    /\ bitsetRun = Idle
    /\ \E q \in BatchSeqs, b \in 0..MaxBatchSize :
          batchRun = [pc |-> "call", input |-> q, s |-> q, batchSize |-> b,
                      batches |-> <<>>, cap |-> 0]

\* batches := make([]S, 0, (len(s)+batchSize-1)/batchSize); the division
\* panics when batchSize is 0
BatchesMake ==
    /\ batchRun.pc = "call"
    /\ IF batchRun.batchSize = 0
       THEN batchRun' = [batchRun EXCEPT !.pc = "panicked"]
       ELSE batchRun' =
               [batchRun EXCEPT
                   !.cap = (Len(batchRun.s) + batchRun.batchSize - 1)
                              \div batchRun.batchSize,
                   !.pc = "loop"]
    /\ UNCHANGED besidesBatches

\* for len(s) > batchSize {
\*     s, batches = s[batchSize:], append(batches, s[0:batchSize:batchSize]) }
BatchesLoop ==
    /\ batchRun.pc = "loop"
    /\ Len(batchRun.s) > batchRun.batchSize
    /\ batchRun' =
          [batchRun EXCEPT
              !.s = SubSeq(@, batchRun.batchSize + 1, Len(@)),
              !.batches = Append(@, SubSeq(batchRun.s, 1, batchRun.batchSize))]
    /\ UNCHANGED besidesBatches

\* batches = append(batches, s); return batches
BatchesReturn ==
    /\ batchRun.pc = "loop"
    /\ Len(batchRun.s) <= batchRun.batchSize
    /\ batchRun' = [batchRun EXCEPT !.batches = Append(@, batchRun.s),
                                    !.pc = "returned"]
    /\ UNCHANGED besidesBatches

BatchesNext ==
    \/ BatchesMake
    \/ BatchesLoop
    \/ BatchesReturn

SpecBatches == BatchesInit /\ [][BatchesNext]_vars

\* ------------------------------------------------ resource.TimeLimited, HTTP
\* resourceRun holds the clock (now), the TimeLimited (between is its
\* MinimalTimeBetween, nextCheck its field) and the HTTP resource that is its
\* R (http: fetchTime, lastModified, etag); rcalls lists the calls of
\* R.FetchIfChanged (when, and through which method), last describes the
\* latest call of a TimeLimited method and what it returned.

\* time.Time{}, the zero time
ZeroTime == 0

\* http.StatusNotModified
StatusNotModified == 304

ErrDoRequest == "resource: Do request: connection refused"
ErrHTTPNoLastModified == "server did not return the Last-Modified header"
ErrInvalidLastModified == "invalid Last-Modified: parsing time"

HTTPError(status) == [type |-> "HTTPError", status |-> status]

NoError == [type |-> "nil", status |-> 0]

Failure(msg) == [type |-> msg, status |-> 0]

\* a Last-Modified header: absent (""), a timestamp in HTTPTimestampFormat,
\* or some other text
NoHeader == [text |-> "", stamp |-> 0]
Timestamp(t) == [text |-> "GMT", stamp |-> t]
Garbled == [text |-> "yesterday", stamp |-> 0]

\* time.Parse(HTTPTimestampFormat, value): the time and a nil error, or the
\* zero time and an error
ParseTimestamp(value) ==
    IF value.text = "GMT" THEN [t |-> value.stamp, err |-> NoError]
    ELSE [t |-> ZeroTime, err |-> Failure(ErrInvalidLastModified)]

\* what c.Do(r.Request) may give: a transport failure or a response
Responses ==
    {[failed |-> TRUE, status |-> 0, lastModified |-> NoHeader, etag |-> ""]}
    \cup {[failed |-> FALSE, status |-> c, lastModified |-> NoHeader, etag |-> ""] :
             c \in {StatusNotModified, 301, 404}}
    \cup {[failed |-> FALSE, status |-> 200, lastModified |-> h, etag |-> "v2"] :
             h \in {NoHeader, Garbled}}
    \cup {[failed |-> FALSE, status |-> 200, lastModified |-> Timestamp(t),
           etag |-> e] : t \in 1..2, e \in {"", "v1"}}

\* HTTP.FetchIfChanged, from the request time and what c.Do returned: the
\* HTTP afterwards, body and err
HTTPReturn(r, body, err) == [r |-> r, body |-> body, err |-> err]

HTTPFetchIfChanged(r, requestTime, resp) ==
    IF resp.failed THEN HTTPReturn(r, "nil", Failure(ErrDoRequest))
    ELSE IF resp.status = StatusNotModified THEN HTTPReturn(r, "nil", NoError)
    ELSE IF resp.status >= 300 THEN HTTPReturn(r, "nil", HTTPError(resp.status))
    ELSE IF resp.lastModified.text = ""
    THEN HTTPReturn(r, "nil", Failure(ErrHTTPNoLastModified))
    ELSE Bind(ParseTimestamp(resp.lastModified), LAMBDA p :
            IF p.err # NoError
            THEN HTTPReturn([r EXCEPT !.lastModified = p.t], "nil", p.err)
            ELSE HTTPReturn([r EXCEPT !.lastModified = p.t,
                                      !.etag = resp.etag,
                                      !.fetchTime = requestTime],
                            "body", NoError))

\* TimeLimited.ShouldCheck:  time.Now().After(t.nextCheck)
ShouldCheck_NotBefore(now, nextCheck) == now >= nextCheck
ShouldCheck(now, nextCheck) == now > nextCheck

\* TimeLimited.LastCheck
LastCheck(t) ==
    IF t.nextCheck = ZeroTime THEN ZeroTime ELSE t.nextCheck - t.between

ResourceInit ==
    /\ IterIdle
    /\ batchRun = Idle
    /\ bitsetRun = Idle
    /\ \E b \in (-1)..MaxBetween :
          resourceRun =
             [pc |-> "ready", now |-> FirstNow, between |-> b,
              nextCheck |-> ZeroTime,
              http |-> [fetchTime |-> ZeroTime, lastModified |-> ZeroTime,
                        etag |-> ""],
              rcalls |-> <<>>,
              last |-> [op |-> "none", at |-> ZeroTime, nextCheck |-> ZeroTime,
                        body |-> "nil", err |-> NoError]]

\* time passes
ResourceTick ==
    /\ resourceRun.now < LastNow
    /\ resourceRun' = [resourceRun EXCEPT !.now = @ + 1]
    /\ UNCHANGED besidesResource

\* t.FetchIfChanged() up to its test: if t.ShouldCheck() is false it returns
\* (nil, nil), otherwise it goes on to t.ForceFetchIfChanged()
TimeLimitedFetchIfChanged ==
    /\ resourceRun.pc = "ready"
    /\ Len(resourceRun.rcalls) < MaxCalls
    /\ resourceRun' =
          [resourceRun EXCEPT
              !.pc = IF ShouldCheck(resourceRun.now, resourceRun.nextCheck)
                     THEN "checking" ELSE "ready",
              !.last = [op |-> "FetchIfChanged", at |-> resourceRun.now,
                        nextCheck |-> resourceRun.nextCheck,
                        body |-> "nil", err |-> NoError]]
    /\ UNCHANGED besidesResource

\* the body of ForceFetchIfChanged:
\*   t.nextCheck = time.Now().Add(t.MinimalTimeBetween)
\*   return t.R.FetchIfChanged()
ForceBody(via) ==
    \E resp \in Responses :
    \E h \in {HTTPFetchIfChanged(resourceRun.http, resourceRun.now, resp)} :
       /\ resourceRun' =
             [resourceRun EXCEPT
                 !.pc = "ready",
                 !.nextCheck = resourceRun.now + resourceRun.between,
                 !.http = h.r,
                 !.rcalls = Append(@, [at |-> resourceRun.now, via |-> via]),
                 !.last = [@ EXCEPT !.body = h.body, !.err = h.err]]
       /\ UNCHANGED besidesResource

\* t.FetchIfChanged() from its test on, when ShouldCheck() was true
TimeLimitedFetchIfChangedForce ==
    /\ resourceRun.pc = "checking"
    /\ ForceBody("FetchIfChanged")

\* a call of t.ForceFetchIfChanged() by the user
TimeLimitedForceFetchIfChanged ==
    /\ resourceRun.pc = "ready"
    /\ Len(resourceRun.rcalls) < MaxCalls
    /\ \E resp \in Responses :
       \E h \in {HTTPFetchIfChanged(resourceRun.http, resourceRun.now, resp)} :
          /\ resourceRun' =
                [resourceRun EXCEPT
                    !.nextCheck = resourceRun.now + resourceRun.between,
                    !.http = h.r,
                    !.rcalls = Append(@, [at |-> resourceRun.now,
                                          via |-> "ForceFetchIfChanged"]),
                    !.last = [op |-> "ForceFetchIfChanged",
                              at |-> resourceRun.now,
                              nextCheck |-> resourceRun.nextCheck,
                              body |-> h.body, err |-> h.err]]
          /\ UNCHANGED besidesResource

ResourceNext ==
    \/ ResourceTick
    \/ TimeLimitedFetchIfChanged
    \/ TimeLimitedFetchIfChangedForce
    \/ TimeLimitedForceFetchIfChanged

SpecResource == ResourceInit /\ [][ResourceNext]_vars

\* ---------------------------------------------------------- bitset.BitSet
\* A BitSet holds a big.Int by value; a big.Int holds its magnitude as a
\* slice of words, least significant first.  bitsetRun.array is the backing
\* array of the set's words and bitsetRun.len the length of the set's slice;
\* a word is the set of the positions of its one bits.

\* bits in a word of a big.Int
WordBits == 64

\* the numbers the sets of a run are made of
BitSetElems == {0, 1, 3, WordBits, WordBits + 2}

MaxOf(S) == CHOOSE x \in S : \A y \in S : y <= x

MinOf(S) == CHOOSE x \in S : \A y \in S : x <= y

\* Of(is...): the words after Add(i) for every i
Of(is) ==
    IF is = {} THEN <<>>
    ELSE [k \in 1..(MaxOf(is) \div WordBits + 1) |->
             {e % WordBits : e \in {x \in is : x \div WordBits = k - 1}}]

\* big.Int.Bit(i) != 0 on the words a[1..m]
Has(a, m, i) ==
    /\ i \div WordBits + 1 <= m
    /\ (i % WordBits) \in a[i \div WordBits + 1]

\* BitSet.Len: the one bits of the words a[1..m]
RECURSIVE BitSetLen(_, _)
BitSetLen(a, m) ==
    IF m = 0 THEN 0 ELSE Cardinality(a[m]) + BitSetLen(a, m - 1)

\* nat.norm: the length without the leading zero words
RECURSIVE Norm(_, _)
Norm(a, m) == IF m > 0 /\ a[m] = {} THEN Norm(a, m - 1) ELSE m

\* big.Int.Rsh(x, s) with x = a[1..m], written to a[1..n]: word k of the
\* result takes the high bits of word k + s/W of x and the low bits of the
\* word after it; the words above n keep what they held
Shr(a, m, s) ==
    LET n == m - s \div WordBits
        r == s % WordBits
        from(k) == IF k <= m THEN a[k] ELSE {}
    IN IF n <= 0 THEN [array |-> a, len |-> 0]
       ELSE LET z == [k \in 1..Len(a) |->
                        IF k > n THEN a[k]
                        ELSE {b - r : b \in {c \in from(m - n + k) : c >= r}}
                             \cup {b + WordBits - r :
                                     b \in {c \in from(m - n + k + 1) : c < r}}]
            IN [array |-> z, len |-> Norm(z, n)]

\* big.Int.TrailingZeroBits of the non-zero a[1..m]
TrailingZeroBits(a, m) ==
    LET k == MinOf({j \in 1..m : a[j] # {}}) IN (k - 1) * WordBits + MinOf(a[k])

BitSetInit ==
    /\ IterIdle
    /\ batchRun = Idle
    /\ resourceRun = Idle
    /\ \E is \in SUBSET BitSetElems :
          bitsetRun = [pc |-> "set", elems |-> is, array |-> Of(is),
                       len |-> Len(Of(is)), i |-> Idle, out |-> <<>>]

\* s.Iter():  &bitsetIterator{s: *s}  copies the BitSet struct and with it
\* the slice header of its words, not the words: the iterator's slice shares
\* the set's backing array.  own tells whether the iterator's words have
\* moved to an array of their own, abs.
BitSetIter ==
    /\ bitsetRun.pc = "set"
    /\ bitsetRun' =
          [bitsetRun EXCEPT
              !.i = [own |-> FALSE, abs |-> <<>>, len |-> bitsetRun.len,
                     n |-> 0, started |-> FALSE],
              !.pc = "iter"]
    /\ UNCHANGED besidesBitSet

\* the words the iterator's slice reads
IterWords(run) == IF run.i.own THEN run.i.abs ELSE run.array

\* i.s.n.Rsh(&i.s.n, s) and i.n += s.  A big.Int copied by value is not
\* supported by math/big: the shift may write the words in place, into the
\* array the set still uses (fresh = FALSE), or into a new array.
IterShift(run, s, fresh) ==
    LET z == Shr(IterWords(run), run.i.len, s) IN
    IF run.i.own \/ fresh
    THEN [run EXCEPT !.i.own = TRUE, !.i.abs = z.array, !.i.len = z.len,
                     !.i.n = @ + s]
    ELSE [run EXCEPT !.array = z.array, !.i.len = z.len, !.i.n = @ + s]

\* bitsetIterator.Next, and Get when it returned true
BitSetIterNext ==
    /\ bitsetRun.pc = "iter"
    /\ \E f1 \in BOOLEAN, f2 \in BOOLEAN :
       \E a \in {IF bitsetRun.i.started THEN IterShift(bitsetRun, 1, f1)
                  ELSE [bitsetRun EXCEPT !.i.started = TRUE]} :
          IF a.i.len = 0
          THEN bitsetRun' = [a EXCEPT !.pc = "done"]
          ELSE \E b \in {IterShift(a, TrailingZeroBits(IterWords(a), a.i.len),
                                    f2)} :
                  bitsetRun' = [b EXCEPT !.out = Append(@, b.i.n)]
    /\ UNCHANGED besidesBitSet

BitSetNext ==
    \/ BitSetIter
    \/ BitSetIterNext

SpecBitSet == BitSetInit /\ [][BitSetNext]_vars

\* ------------------------------------------------------------------ claims

Done == pc \in {"done", "closed"}

\* the combinator of the run has been constructed
Built == pc \notin {"new", "panicked"}

\* the run iterates the generator `gen` directly, with no combinator around it
Iterates(gen) == cfg.gen = gen /\ cfg.op = "Iterate"

\* 0-based index of a generator item, and the index tuple of an output tuple
IndexTuple(t) == [k \in 1..Len(t) |-> t[k] - 101]

\* lexicographic order on index tuples of one length
LexLess(a, b) ==
    \E k \in 1..Len(a) : a[k] < b[k] /\ \A j \in 1..(k - 1) : a[j] = b[j]

\* the outputs so far, as index tuples, are strictly increasing lexicographically
OutLexIncreasing(toIndex(_)) ==
    \A k \in 1..(Len(out) - 1) : LexLess(toIndex(out[k]), toIndex(out[k + 1]))

RECURSIVE Binomial(_, _)
Binomial(n, k) ==
    IF k = 0 THEN 1
    ELSE IF n = 0 THEN 0
    ELSE Binomial(n - 1, k - 1) + Binomial(n - 1, k)

RECURSIVE FallingFactorial(_, _)
FallingFactorial(n, r) == IF r = 0 THEN 1 ELSE n * FallingFactorial(n - 1, r - 1)

\* C1: Combinations(r, items) yields only strictly increasing index tuples of
\* length r over 0..n-1, in strictly increasing lexicographic order (so none
\* twice), and when it ends it has yielded C(n, r) of them, that is all of
\* them: one empty tuple for r = 0, none for r > n.
C1_Combinations ==
    Iterates("Combinations") =>
        /\ \A k \in 1..Len(out) :
              LET t == IndexTuple(out[k]) IN
              /\ Len(t) = cfg.r
              /\ \A j \in 1..Len(t) : t[j] \in 0..(cfg.n - 1)
              /\ \A j \in 1..(Len(t) - 1) : t[j] < t[j + 1]
        /\ OutLexIncreasing(IndexTuple)
        /\ Done => Len(out) = IF cfg.r > cfg.n THEN 0 ELSE Binomial(cfg.n, cfg.r)

C1_Witness ==
    /\ Iterates("Combinations") /\ Done
    /\ cfg.n = 4 /\ cfg.r = 2 /\ Len(out) = 6
    /\ out[2] = <<101, 103>>

\* C2: Permutations(r, items) yields only r-length index tuples without a
\* repeated index, in strictly increasing lexicographic order, and when Next()
\* returns false it has yielded n!/(n-r)! of them, that is all of them: one
\* empty tuple for r = 0, none for r > n.
C2_Permutations ==
    Iterates("Permutations") =>
        /\ \A k \in 1..Len(out) :
              LET t == IndexTuple(out[k]) IN
              /\ Len(t) = cfg.r
              /\ \A j \in 1..Len(t) : t[j] \in 0..(cfg.n - 1)
              /\ \A i, j \in 1..Len(t) : i # j => t[i] # t[j]
        /\ OutLexIncreasing(IndexTuple)
        /\ Done => Len(out) = IF cfg.r > cfg.n THEN 0
                              ELSE FallingFactorial(cfg.n, cfg.r)

C2_Witness ==
    /\ Iterates("Permutations") /\ Done
    /\ cfg.n = 3 /\ cfg.r = 2 /\ Len(out) = 6
    /\ out[4] = <<102, 103>>

\* the number whose set bits are the indices of the tuple's items
RECURSIVE BitMask(_)
BitMask(t) == IF Len(t) = 0 THEN 0 ELSE 2 ^ (t[1] - 101) + BitMask(Tail(t))

\* C3: PowerSet(items) yields 2^n subsets, the empty one first; the k-th
\* (k = 0 .. 2^n - 1) holds items[j] exactly when bit j of k is set, in input
\* order.
C3_PowerSet ==
    Iterates("PowerSet") =>
        /\ \A k \in 1..Len(out) :
              LET t == IndexTuple(out[k]) IN
              /\ \A j \in 1..Len(t) : t[j] \in 0..(cfg.n - 1)
              /\ \A j \in 1..(Len(t) - 1) : t[j] < t[j + 1]
              /\ BitMask(out[k]) = k - 1
        /\ Len(out) >= 1 => out[1] = <<>>
        /\ Done => Len(out) = 2 ^ cfg.n

C3_Witness ==
    /\ Iterates("PowerSet") /\ Done
    /\ cfg.n = 2
    /\ out = << <<>>, <<101>>, <<102>>, <<101, 102>> >>

\* index tuple of a cartesian product's output: element 10*k + j is the j-th
\* of list k
CartesianIndexTuple(t) == [k \in 1..Len(t) |-> (t[k] % 10) - 1]

RECURSIVE ProductOf(_)
ProductOf(lens) == IF Len(lens) = 0 THEN 1 ELSE lens[1] * ProductOf(Tail(lens))

C4_WitnessEmpty ==
    /\ Iterates("CartesianProduct") /\ Done
    /\ cfg.lens = <<2, 0>>
    /\ out = <<>>

RECURSIVE Drain(_)
Drain(i) ==
    LET r == IterNext(i) IN
    IF ~r.ok THEN <<>>
    ELSE LET g == IterGet(r.it) IN <<g.v>> \o Drain(g.it)

SourceElems == Drain(cfg.src)

Min(a, b) == IF a < b THEN a ELSE b

\* the caller's iterator at the bottom of the combinators, with its call counts
RECURSIVE Source(_)
Source(i) == IF i.type = "probe" THEN i ELSE Source(i.i)

\* C7: Limit(i, n) yields the first min(n, number of elements of i) elements
\* of i, in order, and then Next() returns false; Limit(i, 0) yields nothing.
C7_Limit ==
    (cfg.op = "Limit" /\ Built) =>
        LET e == SourceElems
            m == Min(cfg.count, Len(e))
        IN /\ Len(out) <= m
           /\ out = SubSeq(e, 1, Len(out))
           /\ Done => Len(out) = m
           /\ cfg.count = 0 => out = <<>>

C7_Witness ==
    /\ cfg.op = "Limit" /\ Done
    /\ cfg.count = 2
    /\ Len(SourceElems) = 3
    /\ out = SubSeq(SourceElems, 1, 2)

\* C8: Skip(seq, n) yields exactly the elements of seq after the first n, and
\* nothing (its first Next() returns false) when n exceeds the number of
\* elements seq produces, for every source of the package.
C8_Skip ==
    (cfg.op = "Skip" /\ Built) =>
        LET e == SourceElems
            rest == IF cfg.count > Len(e) THEN <<>>
                    ELSE SubSeq(e, cfg.count + 1, Len(e))
        IN /\ Len(out) <= Len(rest)
           /\ out = SubSeq(rest, 1, Len(out))
           /\ Done => out = rest

\* the nine combinators of C9
Combinators == {"Map", "MapWithError", "Filter", "DropWhile", "TakeWhile",
                "Limit", "Skip", "Slice", "Enumerate"}

\* the combinator of the run has been constructed and the consumer has not
\* called Next() on it yet
JustBuilt == cfg.op \in Combinators /\ pc = "iter" /\ out = <<>>

\* C9 as claimed: constructing any of Map, MapWithError, Filter, DropWhile,
\* TakeWhile, Limit, Skip, Slice, Enumerate calls neither Next() nor Get() on
\* the source.
C9_ConstructionIsLazy ==
    JustBuilt => (Source(it).nexts = 0 /\ Source(it).gets = 0)

\* C9 amended: constructing Map, MapWithError, Filter, DropWhile, TakeWhile,
\* Limit or Enumerate calls neither Next() nor Get() on the source, and the
\* consumer's first Next() is what first advances it; constructing Skip(i, n)
\* calls the source's Next() min(n, elements + 1) times and Slice(i, start,
\* stop) min(start, elements + 1) times, and neither calls Get().
C9_LazyExceptSkipAndSlice ==
    /\ JustBuilt =>
          /\ Source(it).gets = 0
          /\ Source(it).nexts =
                CASE cfg.op = "Skip" -> Min(cfg.count, Len(SourceElems) + 1)
                  [] cfg.op = "Slice" -> Min(cfg.start, Len(SourceElems) + 1)
                  [] OTHER -> 0
    /\ (cfg.op \in Combinators \ {"Skip", "Slice"} /\ Built /\ ~JustBuilt)
          => Source(it).nexts >= 1

C9_Witness ==
    /\ JustBuilt
    /\ cfg.op = "Skip" /\ cfg.count = 2
    /\ Len(SourceElems) = 3
    /\ Source(it).nexts = 2 /\ Source(it).gets = 0

\* what the source's Err() returns, from what the source has been through: the
\* error it was built with (Error), or the failure of its reader once a Read()
\* has failed, which is when its Next() returned false (OverIOReader)
SourceErrExpected ==
    IF cfg.gen = "Error" THEN ErrRead
    ELSE IF cfg.gen = "OverIOReader" /\ Source(it).ended /\ cfg.src.r.fail = ErrRead
    THEN ErrRead
    ELSE Nil

\* C10: after Next() of Map, Filter, DropWhile, TakeWhile, Limit or Enumerate
\* returned false, its Err() returns what the source's Err() returns: the
\* source's terminal error, neither replaced nor dropped.
C10_ErrForwarded ==
    (pc = "closed" /\ cfg.op \in {"Map", "Filter", "DropWhile", "TakeWhile",
                                  "Limit", "Enumerate"}) =>
        /\ errv = IterErr(Source(it))
        /\ errv = SourceErrExpected

C10_Witness ==
    /\ pc = "closed" /\ cfg.op = "Filter"
    /\ cfg.gen = "OverIOReader" /\ Len(cfg.src.r.recs) = 2
    /\ Len(out) = 1
    /\ errv = ErrRead

\* C11: after Next() of the iterator ToNonVolatile(i) returned false, its
\* Err() returns what i.Err() returns, whether i is a VolatileIterator (and is
\* wrapped in the copying adapter) or not (and is returned as it is).
C11_ToNonVolatileErr ==
    (pc = "closed" /\ cfg.op = "ToNonVolatile") => errv = IterErr(Source(it))

\* Next() has returned false
Ended == pc \in {"done", "closed", "late"}

\* Err() has been read after that
Closed == pc \in {"closed", "late"}

\* the position (1-based) of the first element of e on which the fallible
\* mapping function fails, 0 when it fails on none
FirstFailure(e) ==
    IF \E k \in 1..Len(e) : MapFuncWithError(e[k]).err # Nil
    THEN CHOOSE k \in 1..Len(e) :
            /\ MapFuncWithError(e[k]).err # Nil
            /\ \A j \in 1..(k - 1) : MapFuncWithError(e[j]).err = Nil
    ELSE 0

\* C12: MapWithError(i, f) yields f(x) for the elements before the first x on
\* which f fails; at that element Next() returns false and Err() returns f's
\* error, f is not invoked and the source not advanced any more, and every
\* further Next() returns false; when f never fails, Err() after exhaustion is
\* the source's Err().
C12_MapWithError ==
    (cfg.op = "MapWithError" /\ Built) =>
        LET e == SourceElems
            k == FirstFailure(e)
            m == IF k = 0 THEN Len(e) ELSE k - 1
        IN /\ Len(out) <= m
           /\ \A j \in 1..Len(out) : out[j] = MapFuncWithError(e[j]).v
           /\ Ended => Len(out) = m
           /\ (Ended /\ k > 0) =>
                 /\ IterErr(it) = MapFuncWithError(e[k]).err
                 /\ it.calls = k
                 /\ Source(it).nexts = k
                 /\ \A j \in 1..Len(late) : ~late[j]
           /\ (Closed /\ k > 0) => errv = ErrFunc
           /\ (pc = "closed" /\ k = 0) => errv = SourceErrExpected

C12_Witness ==
    /\ cfg.op = "MapWithError" /\ pc = "late"
    /\ cfg.gen = "Over" /\ cfg.src.s = <<1, -1, 2>>
    /\ out = <<6>> /\ errv = ErrFunc
    /\ late = <<FALSE, FALSE>>
    /\ Source(it).nexts = 2

C12_WitnessSourceErr ==
    /\ cfg.op = "MapWithError" /\ pc = "closed"
    /\ cfg.gen = "OverIOReader" /\ cfg.src.r.recs = <<1, 2>>
    /\ out = <<6, 7>> /\ errv = ErrRead

C13_WitnessEOF ==
    /\ cfg.gen = "OverIOReader" /\ cfg.op = "Iterate" /\ pc = "closed"
    /\ cfg.src.r.recs = <<1, 2>> /\ cfg.src.r.fail = EOF
    /\ out = <<1, 2>> /\ errv = Nil

\* C14: IntoSlice applied to CartesianProduct, Combinations,
\* CombinationsWithReplacement, Permutations or PowerSet returns a slice whose
\* k-th entry is the tuple produced at step k, whatever the generator has
\* written to its buffer since; two GetCopy() calls at one step return equal
\* values, a write to the first changes neither the second nor what Get()
\* returns afterwards.
C14_OwnedCopies ==
    /\ (cfg.op = "IntoSlice" /\ pc = "returned") => res = <<SourceElems>>
    /\ cfg.op = "CopyTwice" =>
          /\ out = SubSeq(SourceElems, 1, Len(out))
          /\ Len(res) = Len(out)
          /\ \A k \in 1..Len(res) : res[k] = <<out[k], out[k]>>
          /\ Ended => out = SourceElems

C14_Witness ==
    /\ cfg.op = "IntoSlice" /\ pc = "returned"
    /\ cfg.gen = "Permutations" /\ cfg.r = 2 /\ cfg.n = 3
    /\ Len(res[1]) = 6
    /\ res[1][1] = <<101, 102>> /\ res[1][6] = <<103, 102>>

C14_WitnessCopyTwice ==
    /\ cfg.op = "CopyTwice" /\ pc = "done"
    /\ cfg.gen = "PowerSet" /\ cfg.n = 2
    /\ res = << << <<>>, <<>> >>, << <<101>>, <<101>> >>, << <<102>>, <<102>> >>,
               << <<101, 102>>, <<101, 102>> >> >>

\* the left fold of f over e, from acc
RECURSIVE LeftFold(_, _, _)
LeftFold(f, acc, e) ==
    IF Len(e) = 0 THEN acc ELSE LeftFold(f, BinFunc(f, acc, e[1]), Tail(e))

\* C15: Reduce(i, f) returns (the left fold of f over the elements, true) for
\* a non-empty input and (zero, false) for an empty one; Accumulate(i, f)
\* yields the partial left folds, one per element, the last one equal to
\* Reduce's result, and nothing for an empty input; AccumulateWithInitial(i,
\* f, init) yields len + 1 values, init first, the last one equal to
\* ReduceWithInitial(i, f, init).
C15_Folds ==
    LET e == SourceElems
        f == cfg.pred
    IN /\ (cfg.op = "Reduce" /\ pc = "returned") =>
             res = IF Len(e) = 0 THEN <<0, FALSE>>
                   ELSE <<LeftFold(f, e[1], Tail(e)), TRUE>>
       /\ (cfg.op = "ReduceWithInitial" /\ pc = "returned") =>
             res = <<LeftFold(f, cfg.start, e)>>
       /\ (cfg.op = "Accumulate" /\ Built) =>
             /\ Len(out) <= Len(e)
             /\ \A k \in 1..Len(out) :
                   out[k] = LeftFold(f, e[1], SubSeq(e, 2, k))
             /\ Ended => Len(out) = Len(e)
             /\ (Ended /\ Len(e) > 0) =>
                   out[Len(out)] = Reduce(Probe(cfg.src), f).r
       /\ (cfg.op = "AccumulateWithInitial" /\ Built) =>
             /\ Len(out) <= Len(e) + 1
             /\ \A k \in 1..Len(out) :
                   out[k] = LeftFold(f, cfg.start, SubSeq(e, 1, k - 1))
             /\ Ended =>
                   /\ Len(out) = Len(e) + 1
                   /\ out[Len(out)] =
                         ReduceWithInitial(Probe(cfg.src), f, cfg.start).r

C15_Witness ==
    /\ cfg.op = "Accumulate" /\ cfg.pred = "sub" /\ Ended
    /\ cfg.gen = "Over" /\ cfg.src.s = <<2, 1, 2>>
    /\ out = <<2, 1, -1>>

C15_WitnessReduce ==
    /\ cfg.op = "Reduce" /\ cfg.pred = "sub" /\ pc = "returned"
    /\ cfg.gen = "Over" /\ cfg.src.s = <<2, 1, 2>>
    /\ res = <<-1, TRUE>>

\* the scans of C16 and the value their predicate takes on the decisive element
Scans == {"Any", "AnyFunc", "All", "AllFunc", "None", "NoneFunc"}

Decisive == cfg.op \notin {"All", "AllFunc"}

\* the position (1-based) of the first decisive element of e, 0 when none is
FirstDecisive(e) ==
    IF \E k \in 1..Len(e) : PredHolds(cfg.pred, e[k]) = Decisive
    THEN CHOOSE k \in 1..Len(e) :
            /\ PredHolds(cfg.pred, e[k]) = Decisive
            /\ \A j \in 1..(k - 1) : PredHolds(cfg.pred, e[j]) # Decisive
    ELSE 0

\* C16: Any / AnyFunc / None / NoneFunc return at the first element that is
\* (maps to) true, All / AllFunc at the first that is false: when it is the
\* k-th of the source, the source's Next() has been called k times and the
\* elements after the k-th are still to be had from the source; when there is
\* none the source is exhausted and Any = false, All = true, None = true.
C16_ShortCircuit ==
    (cfg.op \in Scans /\ pc = "returned") =>
        LET e == SourceElems
            k == FirstDecisive(e)
        IN IF k > 0
           THEN /\ it.nexts = k
                /\ ~it.ended
                /\ Drain(it) = SubSeq(e, k + 1, Len(e))
                /\ res = <<cfg.op \in {"Any", "AnyFunc"}>>
           ELSE /\ it.nexts = Len(e) + 1
                /\ it.ended
                /\ res = <<cfg.op \notin {"Any", "AnyFunc"}>>

C16_Witness ==
    /\ cfg.op = "NoneFunc" /\ cfg.pred = "odd" /\ pc = "returned"
    /\ cfg.gen = "Over" /\ cfg.src.s = <<2, 1, 2>>
    /\ it.nexts = 2 /\ res = <<FALSE>>
    /\ Drain(it) = <<2>>

C16_WitnessAll ==
    /\ cfg.op = "All" /\ pc = "returned"
    /\ cfg.src.s = <<TRUE, TRUE, TRUE>>
    /\ it.nexts = 4 /\ res = <<TRUE>>

\* the position (1-based) of the first element of e that fails the predicate
\* of the run, 0 when none does
FirstFailing(e) ==
    IF \E k \in 1..Len(e) : ~PredHolds(cfg.pred, e[k])
    THEN CHOOSE k \in 1..Len(e) :
            /\ ~PredHolds(cfg.pred, e[k])
            /\ \A j \in 1..(k - 1) : PredHolds(cfg.pred, e[j])
    ELSE 0

\* C17: TakeWhile(i, pred) yields the longest prefix of i whose elements all
\* satisfy pred; once pred has returned false, on the k-th element, every
\* later Next() returns false, the source is not advanced and pred not
\* evaluated any more, whatever the later elements are.
C17_TakeWhile ==
    (cfg.op = "TakeWhile" /\ Built) =>
        LET e == SourceElems
            k == FirstFailing(e)
            m == IF k = 0 THEN Len(e) ELSE k - 1
        IN /\ Len(out) <= m
           /\ out = SubSeq(e, 1, Len(out))
           /\ Ended => Len(out) = m
           /\ (Ended /\ k > 0) =>
                 /\ Source(it).nexts = k
                 /\ Source(it).gets = k
                 /\ it.calls = k
                 /\ \A j \in 1..Len(late) : ~late[j]

C17_Witness ==
    /\ cfg.op = "TakeWhile" /\ cfg.pred = "lt2" /\ pc = "late"
    /\ cfg.gen = "Over" /\ cfg.src.s = <<1, 2, 1>>
    /\ out = <<1>>
    /\ late = <<FALSE, FALSE>>
    /\ Source(it).nexts = 2 /\ it.calls = 2

\* the arguments of the run are ones a constructor rejects
UsageError ==
    \/ cfg.op \in {"Limit", "Skip"} /\ cfg.count < 0
    \/ cfg.op = "Slice" /\ (cfg.start < 0 \/ cfg.stop < 0 \/ cfg.start > cfg.stop)
    \/ cfg.gen = "Cycle" /\ cfg.r < 0
    \/ cfg.gen = "Repeat" /\ cfg.n = 0
    \/ cfg.gen = "PowerSet" /\ cfg.n > 63
    \/ /\ cfg.gen \in {"Combinations", "CombinationsWithReplacement",
                       "Permutations"}
       /\ cfg.r < 0

\* C18: Limit and Skip with a negative n, Slice with a negative bound or
\* start > stop, Cycle with a negative n, Repeat without elements, PowerSet
\* with more than 63 elements, and Combinations, CombinationsWithReplacement
\* and Permutations with a negative r panic in the constructor call: no
\* iterator is returned, the source handed to Limit, Skip or Slice has not
\* been advanced, and nothing is reported through Err().  Other arguments do
\* not panic.
C18_UsageErrorsPanic ==
    /\ (UsageError /\ pc # "new") =>
          /\ pc = "panicked"
          /\ Len(res) = 1
          /\ errv = "unset" /\ out = <<>>
          /\ IF cfg.src.type = "panic" THEN it.type = "panic"
             ELSE it = Probe(cfg.src)
    /\ pc = "panicked" => UsageError

C18_Witness ==
    /\ pc = "panicked" /\ cfg.op = "Slice" /\ cfg.start = 2 /\ cfg.stop = 1
    /\ cfg.gen = "Over" /\ cfg.src.s = <<1, 2, 1>>
    /\ it.nexts = 0

C18_WitnessPowerSet ==
    /\ pc = "panicked" /\ cfg.gen = "PowerSet" /\ cfg.n = 64
    /\ it.type = "panic"

\* what holds at every moment of an IntoChannel / SendOver run: the elements
\* received are a prefix of the source's, the channel is closed at most once,
\* only by IntoChannel and only when every element has been received, and
\* OverChannel ends only then
ChanSafety ==
    /\ out = SubSeq(SourceElems, 1, Len(out))
    /\ ch.closes <= 1
    /\ ch.closed <=> ch.closes = 1
    /\ ch.closed => (cfg.op = "IntoChannel" /\ out = SourceElems)
    /\ gpc.receiver = "done" => out = SourceElems
    /\ (cfg.op = "SendOver" /\ gpc.sender = "exit") => out = SourceElems
    /\ gpc.sender = "send" =>
          gpc.sending = <<SourceElems[Len(out) + 1]>>

\* C19: IntoChannel(i) delivers every element of i over the channel once and
\* in order and closes the channel once, after the last element was
\* received; unless the receiver stops receiving, the close happens and
\* OverChannel(IntoChannel(i)) ends, having yielded the elements of i.
\* SendOver(i, out) sends the same elements in order and returns without
\* closing out.
C19_IntoChannel ==
    /\ []ChanSafety
    /\ (cfg.op = "IntoChannel") ~> (gpc.receiver \in {"done", "stopped"})
    /\ (cfg.op = "SendOver") ~> (gpc.sender = "exit" \/ gpc.receiver = "stopped")

C19_Witness ==
    /\ cfg.op = "IntoChannel" /\ gpc.receiver = "done"
    /\ cfg.gen = "Over" /\ cfg.src.s = <<1, 2, 1>>
    /\ out = <<1, 2, 1>>
    /\ ch.closes = 1

C19_WitnessSendOver ==
    /\ cfg.op = "SendOver" /\ gpc.sender = "exit"
    /\ cfg.gen = "Permutations" /\ cfg.r = 2 /\ cfg.n = 2
    /\ out = << <<101, 102>>, <<102, 101>> >>
    /\ ~ch.closed

\* the iterator still holds the caller's source
RECURSIVE HasSource(_)
HasSource(i) ==
    \/ i.type = "probe"
    \/ "i" \in DOMAIN i /\ HasSource(i.i)

C20_WitnessReduce ==
    /\ cfg.op = "Reduce" /\ pc = "returned"
    /\ cfg.gen = "Over" /\ cfg.src.s = <<1, 2, 1>>
    /\ it.gets = 3 /\ it.nexts = 4 /\ ~it.twice

\* C24: no function of the iter package calls Next() on an iterator whose
\* Next() has already returned false, whatever the arguments of Skip, Slice,
\* Limit, TakeWhile, DropWhile, Filter, MapWithError, Accumulate and the
\* collectors, a Slice or Skip that starts beyond the end of the source
\* included.  Skip returns the source itself, so that after its construction
\* the calls on the source are the consumer's own.
C24_NoNextAfterFalse ==
    (HasSource(it) /\ pc # "late") =>
        IF cfg.op = "Skip" THEN JustBuilt => Source(it).late = 0
        ELSE Source(it).late = 0

\* C25: when the consumer calls Err() of a wrapper only after the wrapper's
\* Next() has returned false, the wrapper (Map, Filter, DropWhile, TakeWhile,
\* Limit, Enumerate, Accumulate, MapWithError) calls Err() of the iterator it
\* holds only after that iterator's own Next() has returned false.
C25_ErrOnlyAfterFalse ==
    HasSource(it) => ~Source(it).early

\* the iterator i once a loop  for i.Next() { i.Get() }  has run to its end
RECURSIVE Exhaust(_)
Exhaust(i) ==
    LET r == IterNext(i) IN
    IF ~r.ok THEN r.it ELSE Exhaust(IterGet(r.it).it)

\* C26: after Next() of Accumulate(i, f) or AccumulateWithInitial(i, f, init)
\* has returned false, its Err() returns what Err() of the exhausted source i
\* returns, also when i produced no element.
C26_AccumulateErr ==
    (pc = "closed" /\ cfg.op \in {"Accumulate", "AccumulateWithInitial"}) =>
        errv = IterErr(Exhaust(cfg.src))

\* C27: draining Limit(i, n) over a source with more than n elements advances
\* the source exactly n + 1 times: element n + 1 is consumed by the Next()
\* that returns false and is never yielded, and the source resumes at element
\* n + 2 (with n = 0 the first element is consumed); over a source with at
\* most n elements the source is advanced exactly len + 1 times.
C27_LimitConsumes ==
    (cfg.op = "Limit" /\ pc \in {"done", "closed"}) =>
        LET e == SourceElems
            n == cfg.count
            src == Source(it)
        IN /\ src.nexts = Min(n, Len(e)) + 1
           /\ Len(e) > n =>
                 /\ ~src.ended
                 /\ src.oks = n + 1
                 /\ src.gets = n
                 /\ out = SubSeq(e, 1, n)
                 /\ Drain(src) = SubSeq(e, n + 2, Len(e))
           /\ Len(e) <= n => src.ended /\ src.oks = Len(e)

C27_Witness ==
    /\ cfg.op = "Limit" /\ pc = "done"
    /\ cfg.gen = "Over" /\ cfg.src.s = <<1, 2, 1>>
    /\ cfg.count = 1
    /\ out = <<1>>
    /\ Source(it).nexts = 2
    /\ Drain(Source(it)) = <<1>>

C27_WitnessZero ==
    /\ cfg.op = "Limit" /\ pc = "done"
    /\ cfg.gen = "Over" /\ cfg.src.s = <<1, 2>>
    /\ cfg.count = 0
    /\ out = <<>>
    /\ Source(it).nexts = 1
    /\ Drain(Source(it)) = <<2>>

\* the number of values start, start + delta, ... below stop
RangeCount(start, stop, delta) == (stop - start + delta - 1) \div delta

C28_WitnessWraps ==
    /\ Iterates("RangeWithStep") /\ pc = "iter"
    /\ cfg.lens = <<MaxInt8 - 3, MaxInt8, 4>>
    /\ out = <<MaxInt8 - 3, -(MaxInt8 + 1), -(MaxInt8 + 1) + 4>>

\* the receiver has stopped receiving while elements of the iterator are
\* still to be received
StoppedEarly ==
    /\ cfg.op = "IntoChannel"
    /\ gpc.receiver = "stopped"
    /\ Len(out) < Len(SourceElems)

\* C30: if the receiver of the channel returned by IntoChannel stops
\* receiving before the iterator is exhausted, the worker goroutine comes to
\* its send and stays blocked there forever: it never terminates and the
\* channel is never closed.
C30_SenderBlocksForever ==
    /\ [](StoppedEarly => (gpc.sender \in {"next", "send"} /\ ~ch.closed))
    /\ StoppedEarly ~> [](gpc.sender = "send" /\ ~ch.closed)

C30_Witness ==
    /\ StoppedEarly
    /\ cfg.gen = "Over" /\ cfg.src.s = <<1, 2, 1>>
    /\ out = <<1>>
    /\ gpc.sender = "send" /\ gpc.sending = <<2>>
    /\ ~ch.closed

\* the parts of a slice of slices, one after the other
RECURSIVE Concat(_)
Concat(parts) == IF parts = <<>> THEN <<>> ELSE Head(parts) \o Concat(Tail(parts))

\* C23: for every slice s and batchSize >= 1, Batches(s, batchSize) returns
\* exactly ceil(len(s) / batchSize) parts, each of at most batchSize
\* elements, whose concatenation in order is s.
C23_Batches ==
    (batchRun.pc = "returned" /\ batchRun.batchSize >= 1) =>
        /\ Len(batchRun.batches) =
              (Len(batchRun.input) + batchRun.batchSize - 1)
                 \div batchRun.batchSize
        /\ \A k \in 1..Len(batchRun.batches) :
              Len(batchRun.batches[k]) <= batchRun.batchSize
        /\ Concat(batchRun.batches) = batchRun.input

\* C29: advancing an iterator returned by BitSet.Iter() never changes the
\* BitSet it was made from: Has(x) for every x and Len() give before, during
\* and after the iteration what they gave when the set was built.
C29_IterLeavesSet ==
    bitsetRun.pc \in {"set", "iter", "done"} =>
        /\ \A x \in BitSetElems \cup {2, WordBits + 1} :
              Has(bitsetRun.array, bitsetRun.len, x) <=> x \in bitsetRun.elems
        /\ BitSetLen(bitsetRun.array, bitsetRun.len) =
              Cardinality(bitsetRun.elems)

\* ------------------------------------------------ resource.TimeLimited, HTTP
\* the calls of R.FetchIfChanged that TimeLimited.FetchIfChanged made
ThroughFetch ==
    {k \in DOMAIN resourceRun.rcalls : resourceRun.rcalls[k].via = "FetchIfChanged"}

\* a call of a TimeLimited method has returned
TimeLimitedReturned == resourceRun.pc = "ready" /\ resourceRun.last.op # "none"

\* C21: TimeLimited.FetchIfChanged calls R exactly when the time it reads is
\* strictly after NextCheck and returns (nil, nil) otherwise; every call that
\* reaches R leaves NextCheck at its call time plus MinimalTimeBetween; two
\* calls of R made through FetchIfChanged are more than MinimalTimeBetween
\* apart; and once a check has happened LastCheck() is NextCheck() minus
\* MinimalTimeBetween.
C21_TimeLimited ==
    resourceRun.pc # "idle" =>
       /\ resourceRun.last.op = "FetchIfChanged" =>
             IF resourceRun.last.at > resourceRun.last.nextCheck
             THEN \/ resourceRun.pc = "checking"
                  \/ /\ resourceRun.rcalls # <<>>
                     /\ resourceRun.rcalls[Len(resourceRun.rcalls)].via = "FetchIfChanged"
                     /\ resourceRun.rcalls[Len(resourceRun.rcalls)].at >= resourceRun.last.at
             ELSE /\ resourceRun.pc = "ready"
                  /\ resourceRun.last.body = "nil"
                  /\ resourceRun.last.err = NoError
                  /\ \A k \in DOMAIN resourceRun.rcalls :
                        resourceRun.rcalls[k].at <= resourceRun.last.at
       /\ resourceRun.rcalls # <<>> =>
             /\ resourceRun.nextCheck =
                   resourceRun.rcalls[Len(resourceRun.rcalls)].at + resourceRun.between
             /\ LastCheck(resourceRun) = resourceRun.nextCheck - resourceRun.between
             /\ LastCheck(resourceRun) = resourceRun.rcalls[Len(resourceRun.rcalls)].at
       /\ resourceRun.rcalls = <<>> => LastCheck(resourceRun) = ZeroTime
       /\ \A j, k \in ThroughFetch :
             j < k => resourceRun.rcalls[k].at - resourceRun.rcalls[j].at
                        > resourceRun.between

\* two calls of R through FetchIfChanged have been made, and a later
\* FetchIfChanged that came too early has returned (nil, nil)
C21_Witness ==
    /\ resourceRun.pc = "ready"
    /\ resourceRun.between = MaxBetween
    /\ Cardinality(ThroughFetch) >= 2
    /\ resourceRun.last.op = "FetchIfChanged"
    /\ resourceRun.last.at <= resourceRun.last.nextCheck
    /\ resourceRun.last.at > resourceRun.rcalls[Len(resourceRun.rcalls)].at

\* a step in which R.FetchIfChanged was called and returned no body: an
\* error, or (nil, nil)
FetchWithoutBody ==
    /\ resourceRun.pc # "idle"
    /\ Len(resourceRun'.rcalls) = Len(resourceRun.rcalls) + 1
    /\ resourceRun'.last.body = "nil"

\* C22: a call of HTTP.FetchIfChanged that returns an error or (nil, nil)
\* leaves lastModified, etag and fetchTime as the last successful fetch set
\* them.
C22_FailedFetchKeepsState ==
    [][FetchWithoutBody => resourceRun'.http = resourceRun.http]_vars

====
